---- MODULE Spec2Model ----
(***************************************************************************)
(* Model of the multi-instance orchestration layer of beads-ui:            *)
(*   - the instance registry (server/cli/instance-registry.js),            *)
(*   - the central registry (server/cli/registry.js),                      *)
(*   - the daemon controller (server/cli/daemon.js),                       *)
(*   - the command handlers (server/cli/commands.js, both variants).       *)
(* Several specifications share the variables below; each one moves the    *)
(* part of the state its operations touch and leaves the rest alone.       *)
(***************************************************************************)
EXTENDS Integers, Sequences, FiniteSets, TLC

VARIABLES
    registryFile,  \* ~/.beads-ui/instances.json : [kind, data]
    tmpFile,       \* ~/.beads-ui/instances.json.tmp : [kind, data]
    centralFile,   \* ~/.bdui/instances.json : [kind, data]
    pidFile,       \* runtime directory -> pid stored in server.pid (0 = no file)
    alive,         \* pids of the processes that exist
    foreign,       \* existing pids this user may not signal (EPERM)
    nextPid,       \* next pid the OS hands out to a spawned child
    procPort,      \* pid -> PORT the daemon was spawned with (0 = not a daemon)
    last,          \* the last operation: arguments, pre-state, results
    prev,          \* the operation before it
    cli,           \* concurrent CLI invocations: position and local variables
    tp,            \* one run of terminateProcess: position, clock, signals
    fq             \* one findInstanceByWorkspace query: inputs and result

vars == <<registryFile, tmpFile, centralFile, pidFile, alive, foreign, nextPid,
          procPort, last, prev, cli, tp, fq>>

-----------------------------------------------------------------------------
(* Bounds of the model *)

MaxPid == 2
NumPorts == 2

(* Program constants *)

DefaultPort == 3000

Pids == 1..MaxPid
Ports == DefaultPort..(DefaultPort + NumPorts - 1)

-----------------------------------------------------------------------------
(* Paths are strings, modelled as sequences of one-character strings.      *)

sep == "/"

P_root == <<"/">>
P_a    == <<"/", "a">>
P_ab   == <<"/", "a", "b">>
P_a_b  == <<"/", "a", "/", "b">>
P_a_s  == <<"/", "a", "/">>
P_c    == <<"/", "c">>

\* The segments of a path: maximal runs of characters other than the separator.
RECURSIVE Segments(_, _, _)
Segments(p, i, cur) ==
    IF i > Len(p)
    THEN IF cur = <<>> THEN <<>> ELSE <<cur>>
    ELSE IF p[i] = sep
         THEN (IF cur = <<>> THEN <<>> ELSE <<cur>>) \o Segments(p, i + 1, <<>>)
         ELSE Segments(p, i + 1, Append(cur, p[i]))

\* Resolution of "." and ".." segments, left to right.
RECURSIVE NormalizeSegs(_, _)
NormalizeSegs(segs, acc) ==
    IF segs = <<>> THEN acc
    ELSE IF Head(segs) = <<".">> THEN NormalizeSegs(Tail(segs), acc)
    ELSE IF Head(segs) = <<".", ".">>
         THEN NormalizeSegs(Tail(segs),
                            IF acc = <<>> THEN acc ELSE SubSeq(acc, 1, Len(acc) - 1))
         ELSE NormalizeSegs(Tail(segs), Append(acc, Head(segs)))

RECURSIVE JoinSegs(_)
JoinSegs(segs) ==
    IF segs = <<>> THEN <<>>
    ELSE <<sep>> \o Head(segs) \o JoinSegs(Tail(segs))

\* path.resolve of an absolute POSIX path: no empty, "." or ".." segment and no
\* trailing separator; the root is "/".
resolve(p) ==
    LET segs == NormalizeSegs(Segments(p, 1, <<>>), <<>>)
    IN  IF segs = <<>> THEN <<sep>> ELSE JoinSegs(segs)

\* The paths the commands meet, and path.resolve of each.
KnownPaths == {P_root, P_a, P_a_s, P_a_b, P_ab, P_c}

resolved == [p \in KnownPaths |-> resolve(p)]

\* String.prototype.startsWith
startsWith(s, prefix) ==
    /\ Len(prefix) <= Len(s)
    /\ SubSeq(s, 1, Len(prefix)) = prefix

-----------------------------------------------------------------------------
(* Process probe (daemon.js) *)

\* The error process.kill(pid, signal) raises when procs are the processes that
\* exist: "none" when the signal is delivered.
killErrorIn(procs, pid) ==
    IF pid \notin procs THEN "ESRCH"
    ELSE IF pid \in foreign THEN "EPERM"
    ELSE "none"

killError(pid) == killErrorIn(alive, pid)

isRunningIn_DeliveredOnly(procs, pid) ==
    IF pid <= 0 THEN FALSE
    ELSE killErrorIn(procs, pid) = "none"

isRunningIn(procs, pid) ==
    IF pid <= 0 THEN FALSE
    ELSE killErrorIn(procs, pid) # "ESRCH"

isProcessRunning(pid) == isRunningIn(alive, pid)

-----------------------------------------------------------------------------
(* Instance registry (instance-registry.js) *)

NoEntry == [workspace |-> <<>>, port |-> 0, pid |-> 0]

MissingFile == [kind |-> "missing", data |-> <<>>]
CorruptFile == [kind |-> "corrupt", data |-> <<>>]
ListFile(instances) == [kind |-> "list", data |-> instances]

\* A file that holds valid JSON other than an array: {"foo": "bar"}, as its
\* key-value pairs.
ObjectFile == [kind |-> "object", data |-> << <<"foo", "bar">> >>]

readInstanceRegistry_NoArrayCheck(file) ==
    IF file.kind \in {"list", "object"} THEN file.data ELSE <<>>

\* readFileSync throws on a missing file and JSON.parse on text that is not
\* JSON; a parsed value that is not an array is dropped.
readInstanceRegistry(file) ==
    IF file.kind = "list" THEN file.data ELSE <<>>

\* The file content after a successful write (temporary file, then rename).
writeInstanceRegistry(instances) == ListFile(instances)

\* registerInstance, between its read and its write: the list it writes.
registerFiltered_NoFilter(instances, entry) ==
    Append(instances,
        [workspace |-> entry.workspace, port |-> entry.port, pid |-> entry.pid])

registerFiltered_KeepsWorkspace(instances, entry) ==
    instances \o <<[workspace |-> entry.workspace, port |-> entry.port, pid |-> 0],
                   [workspace |-> entry.workspace, port |-> entry.port, pid |-> entry.pid]>>

registerFiltered(instances, entry) ==
    LET filtered == SelectSeq(instances, LAMBDA inst : inst.port # entry.port)
    IN  Append(filtered,
            [workspace |-> entry.workspace, port |-> entry.port, pid |-> entry.pid])

registerInstance(file, entry) ==
    writeInstanceRegistry(registerFiltered(readInstanceRegistry(file), entry))

\* unregisterInstance, between its read and its write.
unregisterFiltered_DropFirst(instances, port) ==
    IF \E i \in DOMAIN instances : instances[i].port = port
    THEN Tail(instances) ELSE instances

unregisterFiltered(instances, port) ==
    SelectSeq(instances, LAMBDA inst : inst.port # port)

unregisterInstance(file, port) ==
    writeInstanceRegistry(unregisterFiltered(readInstanceRegistry(file), port))

\* cleanStaleInstances, between its read and its write: the records kept.
staleFiltered_KeepFirst(procs, instances) ==
    IF \A i \in DOMAIN instances : isRunningIn(procs, instances[i].pid)
    THEN instances
    ELSE SubSeq(instances, 1, 1)

staleFiltered(procs, instances) ==
    SelectSeq(instances, LAMBDA inst : isRunningIn(procs, inst.pid))

cleanStaleInstances(procs, file) ==
    LET instances == readInstanceRegistry(file)
        kept      == staleFiltered(procs, instances)
    IN  IF Len(kept) # Len(instances)
        THEN writeInstanceRegistry(kept)
        ELSE file

\* cleanStaleInstances has no return statement.
cleanStaleInstancesResult == [defined |-> FALSE, value |-> 0]

\* Index of the first record whose resolved workspace equals normalized (0 = none).
RECURSIVE exactMatch(_, _, _)
exactMatch(instances, normalized, i) ==
    IF i > Len(instances) THEN 0
    ELSE IF resolved[instances[i].workspace] = normalized THEN i
    ELSE exactMatch(instances, normalized, i + 1)

\* Index of the first record whose resolved workspace, followed by the separator,
\* is a prefix of normalized (0 = none).
RECURSIVE parentMatch(_, _, _)
parentMatch(instances, normalized, i) ==
    IF i > Len(instances) THEN 0
    ELSE IF startsWith(normalized, Append(resolved[instances[i].workspace], sep)) THEN i
    ELSE parentMatch(instances, normalized, i + 1)

findInstanceByWorkspace(file, workspace) ==
    LET instances  == readInstanceRegistry(file)
        normalized == resolved[workspace]
        exact  == exactMatch(instances, normalized, 1)
        parent == parentMatch(instances, normalized, 1)
    IN  IF exact # 0 THEN instances[exact]
        ELSE IF parent # 0 THEN instances[parent]
        ELSE NoEntry

-----------------------------------------------------------------------------
(* Runtime directory and PID file (daemon.js) *)

\* Directories that hold a .beads directory.
BeadsProjects == {P_a}

\* The fallback runtime directory ($XDG_RUNTIME_DIR/beads-ui or tmpdir/beads-ui).
GlobalRuntimeDir == <<"tmp">>

RuntimeDirs == BeadsProjects \cup {GlobalRuntimeDir}

\* path.dirname of a resolved path.
dirname(p) ==
    LET segs == Segments(p, 1, <<>>)
    IN  IF Len(segs) <= 1 THEN <<sep>>
        ELSE JoinSegs(SubSeq(segs, 1, Len(segs) - 1))

\* Walks up from dir until a directory with a .beads directory is found;
\* <<>> when the root is reached without one.
RECURSIVE findBeadsDir(_)
findBeadsDir(dir) ==
    IF dir \in BeadsProjects THEN dir
    ELSE IF dirname(dir) = dir THEN <<>>
    ELSE findBeadsDir(dirname(dir))

\* BDUI_RUNTIME_DIR is not set: project-local directory, else the global one.
getRuntimeDir(cwd) ==
    LET beads_dir == findBeadsDir(resolve(cwd))
    IN  IF beads_dir # <<>> THEN beads_dir ELSE GlobalRuntimeDir

\* getRuntimeDir of each path.
runtimeDirOf == [p \in KnownPaths |-> getRuntimeDir(p)]

\* daemon.js takes no port parameter: a port passed by a caller is ignored and
\* every instance of a runtime directory shares server.pid.
getPidFilePath(cwd, port) == runtimeDirOf[cwd]

readPidFile(cwd, port) == pidFile[getPidFilePath(cwd, port)]

-----------------------------------------------------------------------------
(* History of operations, for stating pre/post conditions as state predicates *)

NoRet == [defined |-> FALSE, value |-> 0]

NoCmd == [op |-> "none", cwd |-> <<>>, port |-> 0, newInst |-> FALSE,
          entry |-> NoEntry, ret |-> 0, retval |-> NoRet,
          spawned |-> 0, signalled |-> {}, cleaned |-> FALSE, sub |-> <<>>,
          tally |-> <<0, 0>>, selected |-> 0,
          scan |-> [start |-> 0, busy |-> {}, found |-> 0], out |-> <<>>,
          force |-> FALSE,
          preReg |-> MissingFile, preCentral |-> MissingFile,
          prePid |-> [d \in RuntimeDirs |-> 0], preAlive |-> {}]

\* A record of an operation that starts in the current state.
Cmd(op) == [NoCmd EXCEPT !.op = op, !.preReg = registryFile,
                         !.preCentral = centralFile,
                         !.prePid = pidFile, !.preAlive = alive]

NoCli  == <<>>
NoTp   == [pc |-> "idle", pid |-> 0, timeout |-> 0, elapsed |-> 0,
           log |-> <<>>, err |-> "pending", result |-> "pending"]
NoFq   == [state |-> "idle"]

-----------------------------------------------------------------------------
(* SpecReg: the instance-registry API, one call at a time *)

RegWorkspaces == {P_a, P_c}
RegEntries == [workspace : RegWorkspaces, port : Ports, pid : Pids]

regFrame == <<tmpFile, centralFile, pidFile, foreign, nextPid, procPort, cli, tp, fq>>

InitReg ==
    /\ registryFile \in {MissingFile, CorruptFile, ObjectFile}
    /\ tmpFile = MissingFile
    /\ centralFile = MissingFile
    /\ pidFile = [d \in RuntimeDirs |-> 0]
    /\ alive = Pids
    /\ foreign = {}
    /\ nextPid = MaxPid + 1
    /\ procPort = [p \in Pids |-> 0]
    /\ last = NoCmd
    /\ prev = NoCmd
    /\ cli = NoCli
    /\ tp = NoTp
    /\ fq = NoFq

RegRegister ==
    \E e \in RegEntries :
        /\ registryFile' = registerInstance(registryFile, e)
        /\ last' = [Cmd("registerInstance") EXCEPT !.entry = e, !.port = e.port]
        /\ UNCHANGED <<alive, prev, regFrame>>

RegUnregister ==
    \E p \in Ports :
        /\ registryFile' = unregisterInstance(registryFile, p)
        /\ last' = [Cmd("unregisterInstance") EXCEPT !.port = p]
        /\ UNCHANGED <<alive, prev, regFrame>>

RegCleanStale ==
    /\ registryFile' = cleanStaleInstances(alive, registryFile)
    /\ last' = [Cmd("cleanStaleInstances") EXCEPT !.retval = cleanStaleInstancesResult]
    /\ UNCHANGED <<alive, prev, regFrame>>

\* A process exits outside the tool's control.
RegProcessExits ==
    \E p \in alive :
        /\ alive' = alive \ {p}
        /\ last' = [Cmd("exit") EXCEPT !.preAlive = alive \ {p}]
        /\ UNCHANGED <<registryFile, prev, regFrame>>

NextReg == RegRegister \/ RegUnregister \/ RegCleanStale \/ RegProcessExits

SpecReg == InitReg /\ [][NextReg]_vars

\* post is pre with exactly the records at the positions in drop removed, the
\* others unchanged and in the same order.
IsPreWithout(pre, post, drop) ==
    /\ Len(post) = Len(pre) - Cardinality(drop)
    /\ \A i \in (DOMAIN pre) \ drop :
           post[i - Cardinality({j \in drop : j < i})] = pre[i]

PortUnique(instances) ==
    \A i, j \in DOMAIN instances :
        instances[i].port = instances[j].port => i = j

\* C7: after registerInstance(e) a read returns exactly one record with e's port,
\* carrying e's workspace and pid; when the port was registered before, the new
\* record replaces the old one and the registry does not grow.
C7_RegisterUpserts ==
    last.op = "registerInstance" =>
        LET pre  == readInstanceRegistry(last.preReg)
            post == readInstanceRegistry(registryFile)
            e    == last.entry
            hits == {i \in DOMAIN post : post[i].port = e.port}
        IN  /\ Cardinality(hits) = 1
            /\ \A i \in hits : post[i] = [workspace |-> e.workspace,
                                          port |-> e.port, pid |-> e.pid]
            /\ (\E i \in DOMAIN pre : pre[i].port = e.port) => Len(post) = Len(pre)
            /\ (\A i \in DOMAIN pre : pre[i].port # e.port) => Len(post) = Len(pre) + 1

\* A port registered to one process is registered again to another one while a
\* second port is registered too.
C7_Witness ==
    /\ last.op = "registerInstance"
    /\ Len(readInstanceRegistry(last.preReg)) = 2
    /\ \E i \in DOMAIN readInstanceRegistry(last.preReg) :
           /\ readInstanceRegistry(last.preReg)[i].port = last.entry.port
           /\ readInstanceRegistry(last.preReg)[i].pid # last.entry.pid
           /\ i = 1

\* C8: unregisterInstance(port) removes exactly the record with that port and
\* leaves the others identical and in the same order; when no record has the
\* port the content read back is unchanged.
C8_UnregisterFrame ==
    last.op = "unregisterInstance" =>
        LET pre  == readInstanceRegistry(last.preReg)
            post == readInstanceRegistry(registryFile)
            drop == {i \in DOMAIN pre : pre[i].port = last.port}
        IN  /\ IsPreWithout(pre, post, drop)
            /\ \A i \in DOMAIN post : post[i].port # last.port
            /\ drop = {} => post = pre

\* The second of two records is unregistered.
C8_Witness ==
    /\ last.op = "unregisterInstance"
    /\ Len(readInstanceRegistry(last.preReg)) = 2
    /\ readInstanceRegistry(last.preReg)[2].port = last.port
    /\ Len(readInstanceRegistry(registryFile)) = 1

C26_ReadTolerant ==
    /\ registryFile.kind # "list" => readInstanceRegistry(registryFile) = <<>>
    /\ (last.op = "registerInstance" /\ last.preReg.kind # "list") =>
           /\ readInstanceRegistry(last.preReg) = <<>>
           /\ readInstanceRegistry(registryFile) =
                  <<[workspace |-> last.entry.workspace, port |-> last.entry.port,
                     pid |-> last.entry.pid]>>

\* An entry has been registered on a file that held a JSON object.
C26_Witness ==
    /\ last.op = "registerInstance"
    /\ last.preReg = ObjectFile
    /\ registryFile.kind = "list"

-----------------------------------------------------------------------------
(* SpecConc: two CLI invocations whose registry reads and writes interleave. *)
(* Each invocation performs one registry operation; the registry starts     *)
(* from any port-unique content.                                            *)

Cli == {"A", "B"}

ConcEntries == [workspace : {P_a}, port : Ports, pid : Pids]
SeedEntries == [workspace : {P_c}, port : Ports, pid : {1}]

SeedRegistries ==
    {l \in UNION {[1..n -> SeedEntries] : n \in 0..NumPorts} : PortUnique(l)}

IdleCli == [pc |-> "idle", op |-> "none", entry |-> NoEntry, port |-> 0,
            instances |-> <<>>, content |-> <<>>, fd |-> "none"]

concFrame == <<centralFile, pidFile, alive, foreign, nextPid, procPort, last, prev, tp, fq>>

\* A file that open(path, 'w') has created or truncated and that holds no byte
\* yet.
EmptyFile == [kind |-> "empty", data |-> <<>>]

\* A serialization written at offset 0 over a longer one: the new text followed
\* by the tail of the old text. data is the old, longer content.
MixedFile(longer) == [kind |-> "mixed", data |-> longer]

\* The length of JSON.stringify(data, null, 2): the brackets and, per record,
\* its keys, punctuation and numbers (of the same width for every port and pid
\* modelled) and the characters of its path.
RECURSIVE jsonLength(_)
jsonLength(data) ==
    IF data = <<>> THEN 2
    ELSE 40 + Len(IF "workspace" \in DOMAIN Head(data)
                  THEN Head(data).workspace ELSE Head(data).path)
            + jsonLength(Tail(data))

\* The length of a file that exists: no byte after a truncation, else the length
\* of the text it holds (for a mixed file, that of the longer text).
fileLength(file) ==
    IF file.kind = "empty" THEN 0 ELSE jsonLength(file.data)

\* write(fd, text) at offset 0 followed by close: the text replaces the first
\* bytes of the file and what lay beyond them stays.
writeAtStart(file, written) ==
    IF fileLength(file) > jsonLength(written.data)
    THEN MixedFile(file.data)
    ELSE written

InitConc ==
    /\ registryFile \in {MissingFile, CorruptFile}
                            \cup {ListFile(l) : l \in SeedRegistries}
    /\ tmpFile = MissingFile
    /\ centralFile = MissingFile
    /\ pidFile = [d \in RuntimeDirs |-> 0]
    /\ alive \in {Pids, Pids \ {1}}
    /\ foreign = {}
    /\ nextPid = MaxPid + 1
    /\ procPort = [p \in Pids |-> 0]
    /\ last = NoCmd
    /\ prev = NoCmd
    /\ cli = [c \in Cli |-> IdleCli]
    /\ tp = NoTp
    /\ fq = NoFq

\* The invocation reaches a call of registerInstance.
CliBeginRegister(c) ==
    /\ cli[c].pc = "idle"
    /\ \E e \in ConcEntries :
           cli' = [cli EXCEPT ![c] = [IdleCli EXCEPT !.pc = "read",
                       !.op = "registerInstance", !.entry = e, !.port = e.port]]
    /\ UNCHANGED <<registryFile, tmpFile, concFrame>>

\* The invocation reaches a call of unregisterInstance.
CliBeginUnregister(c) ==
    /\ cli[c].pc = "idle"
    /\ \E p \in Ports :
           cli' = [cli EXCEPT ![c] = [IdleCli EXCEPT !.pc = "read",
                       !.op = "unregisterInstance", !.port = p]]
    /\ UNCHANGED <<registryFile, tmpFile, concFrame>>

\* The invocation reaches a call of cleanStaleInstances.
CliBeginCleanStale(c) ==
    /\ cli[c].pc = "idle"
    /\ cli' = [cli EXCEPT ![c] = [IdleCli EXCEPT !.pc = "read",
                   !.op = "cleanStaleInstances"]]
    /\ UNCHANGED <<registryFile, tmpFile, concFrame>>

\* readInstanceRegistry, and the list the operation computes from it.
CliRead(c) ==
    /\ cli[c].pc = "read"
    /\ LET instances == readInstanceRegistry(registryFile)
           content ==
               IF cli[c].op = "registerInstance"
               THEN registerFiltered(instances, cli[c].entry)
               ELSE IF cli[c].op = "unregisterInstance"
               THEN unregisterFiltered(instances, cli[c].port)
               ELSE staleFiltered(alive, instances)
           skip == cli[c].op = "cleanStaleInstances" /\ Len(content) = Len(instances)
       IN  cli' = [cli EXCEPT ![c].pc = IF skip THEN "done" ELSE "openTmp",
                              ![c].instances = instances,
                              ![c].content = content]
    /\ UNCHANGED <<registryFile, tmpFile, concFrame>>

\* The descriptors after a rename or unlink of the temporary file: a descriptor
\* keeps its inode, which is now the registry file (rename) or has no name left.
fdAfter(c, moved) ==
    [d \in Cli |->
        IF d = c THEN "none"
        ELSE IF cli[d].fd = "tmp" THEN moved
        ELSE IF cli[d].fd = "registry" /\ moved = "registry" THEN "unlinked"
        ELSE cli[d].fd]

\* writeInstanceRegistry: writeFileSync(temp_path, content), its open with flag
\* 'w'. The temporary path is the same for every invocation; an existing file is
\* truncated in place and every descriptor open on it sees the empty file.
CliOpenTmp(c) ==
    /\ cli[c].pc = "openTmp"
    /\ tmpFile' = EmptyFile
    /\ cli' = [cli EXCEPT ![c].pc = "writeTmp", ![c].fd = "tmp"]
    /\ UNCHANGED <<registryFile, concFrame>>

\* writeInstanceRegistry: writeFileSync(temp_path, content), its write and close.
\* The bytes go to the file the descriptor was opened on, whatever name that
\* file has by now.
CliWriteTmp(c) ==
    /\ cli[c].pc = "writeTmp"
    /\ tmpFile' = IF cli[c].fd = "tmp"
                  THEN writeAtStart(tmpFile, ListFile(cli[c].content)) ELSE tmpFile
    /\ registryFile' = IF cli[c].fd = "registry"
                       THEN writeAtStart(registryFile, ListFile(cli[c].content))
                       ELSE registryFile
    /\ cli' = [cli EXCEPT ![c].pc = "rename", ![c].fd = "none"]
    /\ UNCHANGED concFrame

\* writeInstanceRegistry: renameSync(temp_path, registry_path). When another
\* invocation has renamed the shared temporary file away, rename throws and the
\* catch block runs.
CliRename(c) ==
    /\ cli[c].pc = "rename"
    /\ IF tmpFile.kind = "missing"
       THEN /\ UNCHANGED <<registryFile, tmpFile>>
            /\ cli' = [cli EXCEPT ![c].pc = "unlink"]
       ELSE /\ registryFile' = tmpFile
            /\ tmpFile' = MissingFile
            /\ cli' = [d \in Cli |-> [cli[d] EXCEPT
                           !.pc = IF d = c THEN "done" ELSE @,
                           !.fd = fdAfter(c, "registry")[d]]]
    /\ UNCHANGED concFrame

\* writeInstanceRegistry, the catch block: unlinkSync(temp_path), errors ignored.
CliUnlink(c) ==
    /\ cli[c].pc = "unlink"
    /\ tmpFile' = MissingFile
    /\ cli' = [d \in Cli |-> [cli[d] EXCEPT
                   !.pc = IF d = c THEN "done" ELSE @,
                   !.fd = IF tmpFile.kind = "missing" THEN @
                          ELSE fdAfter(c, "unlinked")[d]]]
    /\ UNCHANGED <<registryFile, concFrame>>

NextConc ==
    \E c \in Cli :
        \/ CliBeginRegister(c)
        \/ CliBeginUnregister(c)
        \/ CliBeginCleanStale(c)
        \/ CliRead(c)
        \/ CliOpenTmp(c)
        \/ CliWriteTmp(c)
        \/ CliRename(c)
        \/ CliUnlink(c)

SpecConc == InitConc /\ [][NextConc]_vars

\* C1: in every reachable state, whatever the interleaving of the reads and
\* writes of concurrent register, unregister and cleanStale operations, no two
\* records of the registry have the same port.
C1_PortUnique ==
    PortUnique(readInstanceRegistry(registryFile))

\* Both invocations registered the same port for different processes, both read
\* the registry before either wrote it, and both have finished.
C1_Witness ==
    /\ \A c \in Cli : cli[c].pc = "done" /\ cli[c].op = "registerInstance"
    /\ cli["A"].port = cli["B"].port
    /\ cli["A"].entry.pid # cli["B"].entry.pid
    /\ cli["A"].instances = cli["B"].instances
    /\ Len(cli["A"].instances) = NumPorts
    /\ \E i \in DOMAIN readInstanceRegistry(registryFile) :
           readInstanceRegistry(registryFile)[i].port = cli["A"].port

-----------------------------------------------------------------------------
(* SpecFind: findInstanceByWorkspace applied to bounded inputs *)

MaxFindLen == 2

FindPaths == {P_root, P_a, P_a_s, P_a_b, P_ab, P_c}

\* Registries of at most MaxFindLen records, each on a port of its own.
FindRegistries ==
    UNION {{[i \in 1..n |-> [workspace |-> ws[i], port |-> DefaultPort + i - 1, pid |-> 1]]
               : ws \in [1..n -> FindPaths]} : n \in 0..MaxFindLen}

findFrame == <<tmpFile, centralFile, pidFile, alive, foreign, nextPid, procPort,
               last, prev, cli, tp>>

InitFind ==
    /\ registryFile \in {ListFile(l) : l \in FindRegistries}
    /\ tmpFile = MissingFile
    /\ centralFile = MissingFile
    /\ pidFile = [d \in RuntimeDirs |-> 0]
    /\ alive = Pids
    /\ foreign = {}
    /\ nextPid = MaxPid + 1
    /\ procPort = [p \in Pids |-> 0]
    /\ last = NoCmd
    /\ prev = NoCmd
    /\ cli = NoCli
    /\ tp = NoTp
    /\ fq \in [state : {"asked"}, workspace : FindPaths, result : {NoEntry}]

FindQuery ==
    /\ fq.state = "asked"
    /\ fq' = [fq EXCEPT !.state = "answered",
                        !.result = findInstanceByWorkspace(registryFile, fq.workspace)]
    /\ UNCHANGED <<registryFile, findFrame>>

NextFind == FindQuery

SpecFind == InitFind /\ [][NextFind]_vars

\* Directory a is a proper ancestor of directory w: the names on the way to a
\* are a proper prefix of the names on the way to w.
IsAncestorDir(a, w) ==
    LET sa == Segments(resolve(a), 1, <<>>)
        sw == Segments(resolve(w), 1, <<>>)
    IN  /\ Len(sa) < Len(sw)
        /\ SubSeq(sw, 1, Len(sa)) = sa

\* C9: findByWorkspace(w) returns the record whose normalized workspace equals w
\* when one exists; otherwise a record whose workspace is an ancestor directory
\* of w; otherwise none.
C9_FindByWorkspace ==
    fq.state = "answered" =>
        LET instances == readInstanceRegistry(registryFile)
            w         == fq.workspace
            exact     == {i \in DOMAIN instances :
                              resolve(instances[i].workspace) = resolve(w)}
            ancestors == {i \in DOMAIN instances :
                              IsAncestorDir(instances[i].workspace, w)}
        IN  IF exact # {}
            THEN \E i \in exact : fq.result = instances[i]
            ELSE IF ancestors # {}
            THEN \E i \in ancestors : fq.result = instances[i]
            ELSE fq.result = NoEntry

\* The same statement with the filesystem root left out of the ancestors: this
\* is what the code computes.
C9_FindByWorkspaceBelowRoot ==
    fq.state = "answered" =>
        LET instances == readInstanceRegistry(registryFile)
            w         == fq.workspace
            exact     == {i \in DOMAIN instances :
                              resolve(instances[i].workspace) = resolve(w)}
            ancestors == {i \in DOMAIN instances :
                              /\ IsAncestorDir(instances[i].workspace, w)
                              /\ resolve(instances[i].workspace) # P_root}
        IN  IF exact # {}
            THEN fq.result = instances[CHOOSE i \in exact : \A j \in exact : i <= j]
            ELSE IF ancestors # {}
            THEN fq.result = instances[CHOOSE i \in ancestors :
                                           \A j \in ancestors : i <= j]
            ELSE fq.result = NoEntry

-----------------------------------------------------------------------------
(* SpecTerm: one run of terminateProcess(pid, timeout_ms), statement by     *)
(* statement, while the process may exit at any moment. Time is counted in  *)
(* polling intervals of 100 ms.                                             *)

MaxTimeout == 3
MaxOversleep == 1

SignalEvent(sig, t) == [kind |-> "signal", sig |-> sig, running |-> FALSE, at |-> t]
PollEvent(running, t) == [kind |-> "poll", sig |-> "0", running |-> running, at |-> t]

\* Where terminateProcess goes after process.kill(pid, 'SIGTERM') raised err.
afterSigterm_AlwaysPoll(err) == "loopTest"

afterSigterm(err) ==
    IF err = "ESRCH" THEN "returnTrue" ELSE "loopTest"

\* while (Date.now() - start_time < timeout_ms)
loopTest_NoWait(elapsed, timeout) == "sigkill"

loopTest(elapsed, timeout) ==
    IF elapsed < timeout THEN "poll" ELSE "sigkill"

\* if (!isProcessRunning(pid)) return true; await sleep(100)
afterPoll_FallThrough(running) ==
    IF ~running THEN "sigkill" ELSE "sleep"

afterPoll(running) ==
    IF ~running THEN "returnTrue" ELSE "sleep"

termFrame == <<registryFile, tmpFile, centralFile, pidFile, nextPid, procPort,
               last, prev, cli, fq>>

InitTerm ==
    /\ registryFile = MissingFile
    /\ tmpFile = MissingFile
    /\ centralFile = MissingFile
    /\ pidFile = [d \in RuntimeDirs |-> 0]
    /\ alive \in SUBSET Pids
    /\ foreign \in SUBSET alive
    /\ nextPid = MaxPid + 1
    /\ procPort = [p \in Pids |-> 0]
    /\ last = NoCmd
    /\ prev = NoCmd
    /\ cli = NoCli
    /\ tp \in [pc : {"sigterm"}, pid : Pids, timeout : 0..MaxTimeout,
               elapsed : {0}, log : {<<>>}, err : {"pending"}, result : {"pending"}]
    /\ fq = NoFq

\* process.kill(pid, 'SIGTERM')
TermSigterm ==
    /\ tp.pc = "sigterm"
    /\ tp' = [tp EXCEPT !.pc = afterSigterm(killError(tp.pid)),
                        !.err = killError(tp.pid),
                        !.log = Append(@, SignalEvent("SIGTERM", tp.elapsed))]
    /\ UNCHANGED <<alive, foreign, termFrame>>

TermLoopTest ==
    /\ tp.pc = "loopTest"
    /\ tp' = [tp EXCEPT !.pc = loopTest(tp.elapsed, tp.timeout)]
    /\ UNCHANGED <<alive, foreign, termFrame>>

TermPoll ==
    /\ tp.pc = "poll"
    /\ tp' = [tp EXCEPT !.pc = afterPoll(isProcessRunning(tp.pid)),
                        !.log = Append(@, PollEvent(isProcessRunning(tp.pid), tp.elapsed))]
    /\ UNCHANGED <<alive, foreign, termFrame>>

\* await sleep(100): at least one interval passes.
TermSleep ==
    /\ tp.pc = "sleep"
    /\ \E d \in 1..(1 + MaxOversleep) :
           tp' = [tp EXCEPT !.pc = "loopTest", !.elapsed = @ + d]
    /\ UNCHANGED <<alive, foreign, termFrame>>

\* process.kill(pid, 'SIGKILL'), errors ignored; then sleep(50)
TermSigkill ==
    /\ tp.pc = "sigkill"
    /\ tp' = [tp EXCEPT !.pc = "final",
                        !.log = Append(@, SignalEvent("SIGKILL", tp.elapsed))]
    /\ UNCHANGED <<alive, foreign, termFrame>>

\* return !isProcessRunning(pid)
TermFinal ==
    /\ tp.pc = "final"
    /\ tp' = [tp EXCEPT !.pc = "done",
                        !.result = IF isProcessRunning(tp.pid) THEN "false" ELSE "true",
                        !.log = Append(@, PollEvent(isProcessRunning(tp.pid), tp.elapsed))]
    /\ UNCHANGED <<alive, foreign, termFrame>>

TermReturnTrue ==
    /\ tp.pc = "returnTrue"
    /\ tp' = [tp EXCEPT !.pc = "done", !.result = "true"]
    /\ UNCHANGED <<alive, foreign, termFrame>>

\* The process exits: because of a signal it received, or on its own.
TermProcessExits ==
    /\ tp.pc # "done"
    /\ tp.pid \in alive
    /\ alive' = alive \ {tp.pid}
    /\ foreign' = foreign \ {tp.pid}
    /\ UNCHANGED <<tp, termFrame>>

NextTerm ==
    \/ TermSigterm
    \/ TermLoopTest
    \/ TermPoll
    \/ TermSleep
    \/ TermSigkill
    \/ TermFinal
    \/ TermReturnTrue
    \/ TermProcessExits

SpecTerm == InitTerm /\ [][NextTerm]_vars

SignalIndexes(sig) ==
    {i \in DOMAIN tp.log : tp.log[i].kind = "signal" /\ tp.log[i].sig = sig}

\* C10: SIGTERM is sent first; SIGKILL is sent at most once, only after SIGTERM
\* and only when every liveness poll of the whole timeout window found the
\* process running; no signal is sent after SIGKILL.
C10_EscalationProtocol ==
    /\ tp.pc # "sigterm" =>
           /\ Len(tp.log) >= 1
           /\ tp.log[1] = SignalEvent("SIGTERM", 0)
    /\ Cardinality(SignalIndexes("SIGTERM")) <= 1
    /\ Cardinality(SignalIndexes("SIGKILL")) <= 1
    /\ \A k \in SignalIndexes("SIGKILL") :
           /\ \E i \in SignalIndexes("SIGTERM") : i < k
           /\ \A i \in 1..(k - 1) : tp.log[i].kind = "poll" => tp.log[i].running
           /\ tp.log[k].at >= tp.timeout
           /\ \A i \in (k + 1)..Len(tp.log) : tp.log[i].kind # "signal"

\* The process ignored SIGTERM through a window of several polls and SIGKILL
\* was sent.
C10_Witness ==
    /\ tp.pc = "done"
    /\ tp.timeout = MaxTimeout
    /\ SignalIndexes("SIGKILL") # {}
    /\ Cardinality({i \in DOMAIN tp.log : tp.log[i].kind = "poll"}) >= 3

-----------------------------------------------------------------------------
(* Command handlers of commands.js, one whole invocation per step.         *)
(* A handler works on a record st of what it has read and written so far:  *)
(*   reg, central             : the two registry files                     *)
(*   pidf, procs, pp, np      : PID files, process table, ports of the     *)
(*                              daemons, next pid                          *)
(*   port                     : the handler's local variable port (0 =     *)
(*                              undefined)                                 *)
(*   done, ret                : whether it has returned, and its exit code *)
(*   spawned, signalled, cleaned : what it did                             *)

PortScanLast == 9

Cwds == {P_a, P_a_b}

\* How a signalled process behaves during one terminateProcess call.
Fates == {"exits", "survives"}

NoPidFiles == [d \in RuntimeDirs |-> 0]

removePidFile(pidf, cwd, port) == [pidf EXCEPT ![getPidFilePath(cwd, port)] = 0]

writePidFile(pidf, cwd, pid) == [pidf EXCEPT ![getPidFilePath(cwd, 0)] = pid]

\* terminateProcess(pid, 5000) as its caller sees it: the value it resolves to
\* and the process table it leaves.  A process that does not exist gives true at
\* once; otherwise the outcome is the process's: gone by the last probe (true) or
\* still there after SIGKILL and the final 50 ms (false).
terminateProcess(procs, pid, fate) ==
    IF killErrorIn(procs, pid) = "ESRCH"
    THEN [stopped |-> TRUE, procs |-> procs, signalled |-> {}]
    ELSE IF fate = "exits"
    THEN [stopped |-> TRUE, procs |-> procs \ {pid}, signalled |-> {pid}]
    ELSE [stopped |-> ~isRunningIn(procs, pid), procs |-> procs, signalled |-> {pid}]

\* Ports with a listener: the daemons that exist and other programs.
busyPorts(procs, pp, extBusy) == {pp[p] : p \in procs} \cup extBusy

\* The first port of start .. start + 9 that can be bound, 0 when there is none.
findAvailablePort(start, busy) ==
    LET free == {q \in start..(start + PortScanLast) : q \notin busy}
    IN  IF free = {} THEN 0
        ELSE CHOOSE q \in free : \A r \in free : q <= r

\* startDaemon: spawn succeeds with a new pid, which is written to the PID file,
\* or fails and returns null (pid 0 here).
startDaemon(st, cwd, spawnOk) ==
    IF spawnOk
    THEN [st EXCEPT !.spawned = st.np,
                    !.procs = @ \cup {st.np},
                    !.pp = [p \in DOMAIN st.pp |->
                               IF p # st.np THEN st.pp[p]
                               ELSE IF st.port = 0 THEN DefaultPort ELSE st.port],
                    !.np = @ + 1,
                    !.pidf = writePidFile(@, cwd, st.np)]
    ELSE st

Return(st, code) == [st EXCEPT !.done = TRUE, !.ret = code]

HandlerState(port) ==
    [reg |-> registryFile, central |-> centralFile, pidf |-> pidFile,
     procs |-> alive, pp |-> procPort,
     np |-> nextPid, port |-> port, done |-> FALSE, ret |-> 0,
     spawned |-> 0, signalled |-> {}, cleaned |-> FALSE, sub |-> <<>>,
     tally |-> <<0, 0>>, children |-> cli, scan |-> NoCmd.scan, out |-> <<>>]

reusePort_Never(port, existing_port) == port

\* if (!port) port = existing.port  (lines 46-49 and 58-60)
reusePort(port, existing_port) == IF port = 0 THEN existing_port ELSE port

\* handleStart, lines 36-70: in new-instance mode, the instance the registry has
\* for this workspace is stopped (or, when orphaned, cleaned up) and its port
\* reused unless a port was given.
startStopExisting(st, cwd, new_instance, fate) ==
    LET existing == findInstanceByWorkspace(st.reg, cwd)
        t        == terminateProcess(st.procs, existing.pid, fate)
        released == [st EXCEPT !.pidf = removePidFile(@, cwd, existing.port),
                               !.reg  = unregisterInstance(@, existing.port),
                               !.port = reusePort(@, existing.port)]
    IN  IF ~new_instance \/ existing = NoEntry THEN st
        ELSE IF ~isRunningIn(st.procs, existing.pid) THEN released
        ELSE IF t.stopped
             THEN [released EXCEPT !.procs = t.procs, !.signalled = @ \cup t.signalled]
             ELSE Return([st EXCEPT !.procs = t.procs, !.signalled = @ \cup t.signalled], 1)

startCleanStale_Skip(st) == st

\* handleStart, line 73.
startCleanStale(st) ==
    IF st.done THEN st
    ELSE [st EXCEPT !.reg = cleanStaleInstances(st.procs, @), !.cleaned = TRUE]

scanStart_Default(global_running) == DefaultPort

\* start_port, lines 81-82: 3001 if the global instance is on 3000.
scanStart(global_running) ==
    IF global_running THEN DefaultPort + 1 ELSE DefaultPort

startSelectPort_NoScan(st, cwd, new_instance, extBusy) ==
    LET global_pid == st.pidf[getPidFilePath(cwd, 0)]
        start_port == scanStart(global_pid # 0 /\ isRunningIn(st.procs, global_pid))
        busy       == busyPorts(st.procs, st.pp, extBusy)
    IN  IF st.done \/ st.port # 0 \/ ~new_instance THEN st
        ELSE [st EXCEPT !.port = start_port,
                        !.scan = [start |-> start_port, busy |-> busy,
                                  found |-> start_port]]

\* A port selection that goes on with the first port of the range when the scan
\* found none.
startSelectPort_NoFail(st, cwd, new_instance, extBusy) ==
    LET global_pid == st.pidf[getPidFilePath(cwd, 0)]
        start_port == scanStart(global_pid # 0 /\ isRunningIn(st.procs, global_pid))
        busy       == busyPorts(st.procs, st.pp, extBusy)
        found_port == findAvailablePort(start_port, busy)
        scanned    == [st EXCEPT !.scan = [start |-> start_port, busy |-> busy,
                                           found |-> found_port]]
    IN  IF st.done \/ st.port # 0 \/ ~new_instance THEN st
        ELSE [scanned EXCEPT !.port = IF found_port = 0 THEN start_port ELSE found_port]

\* handleStart, lines 76-100: automatic port selection in new-instance mode.
startSelectPort(st, cwd, new_instance, extBusy) ==
    LET global_pid == st.pidf[getPidFilePath(cwd, 0)]
        start_port == scanStart(global_pid # 0 /\ isRunningIn(st.procs, global_pid))
        busy       == busyPorts(st.procs, st.pp, extBusy)
        found_port == findAvailablePort(start_port, busy)
        scanned    == [st EXCEPT !.scan = [start |-> start_port, busy |-> busy,
                                           found |-> found_port]]
    IN  IF st.done \/ st.port # 0 \/ ~new_instance THEN st
        ELSE IF found_port = 0 THEN Return(scanned, 1)
        ELSE [scanned EXCEPT !.port = found_port]

\* handleStart, lines 102-133: what a PID file that names a process leads to.
startAlreadyRunning_Ignore(st, cwd, new_instance) ==
    st

startAlreadyRunning(st, cwd, new_instance) ==
    LET existing_pid == st.pidf[getPidFilePath(cwd, IF new_instance THEN st.port ELSE 0)]
    IN  IF st.done THEN st
        ELSE IF existing_pid # 0 /\ isRunningIn(st.procs, existing_pid)
             THEN Return(st, IF new_instance THEN 1 ELSE 0)
        ELSE IF existing_pid # 0
             THEN [st EXCEPT !.pidf = removePidFile(@, cwd, IF new_instance THEN st.port ELSE 0)]
        ELSE st

startSpawn_RegisterAnyway(st, cwd, new_instance, spawnOk) ==
    LET started == startDaemon(st, cwd, spawnOk)
    IN  IF st.done THEN st
        ELSE IF new_instance /\ st.port # 0
             THEN Return([started EXCEPT !.reg = registerInstance(@,
                              [workspace |-> cwd, port |-> st.port, pid |-> started.spawned])],
                         IF started.spawned = 0 THEN 1 ELSE 0)
        ELSE Return(started, IF started.spawned = 0 THEN 1 ELSE 0)

\* handleStart, lines 144-172: spawn, then register in new-instance mode.
startSpawn(st, cwd, new_instance, spawnOk) ==
    LET started == startDaemon(st, cwd, spawnOk)
    IN  IF st.done THEN st
        ELSE IF started.spawned = 0 THEN Return(st, 1)
        ELSE IF new_instance /\ st.port # 0
             THEN Return([started EXCEPT !.reg = registerInstance(@,
                              [workspace |-> cwd, port |-> st.port, pid |-> started.spawned])], 0)
        ELSE Return(started, 0)

\* handleStart run on the files and processes of st0, with options.port = st0.port.
handleStartFrom(st0, cwd, new_instance, fate, extBusy, spawnOk) ==
    LET s1 == startStopExisting(st0, cwd, new_instance, fate)
        s2 == startCleanStale(s1)
        s3 == startSelectPort(s2, cwd, new_instance, extBusy)
        s4 == startAlreadyRunning(s3, cwd, new_instance)
    IN  startSpawn(s4, cwd, new_instance, spawnOk)

handleStart(cwd, port, new_instance, fate, extBusy, spawnOk) ==
    handleStartFrom(HandlerState(port), cwd, new_instance, fate, extBusy, spawnOk)

\* handleStop: the registry record of the port is removed first; then the PID file
\* decides.
stopUnregister_Skip(st) ==
    st

stopUnregister(st) ==
    IF st.port # 0 THEN [st EXCEPT !.reg = unregisterInstance(@, st.port)] ELSE st

stopStale_KeepFile(st, cwd, port) == Return(st, 0)

\* handleStop, lines 197-201: a stale PID file is removed; the exit code is 0.
stopStale(st, cwd, port) ==
    Return([st EXCEPT !.pidf = removePidFile(@, cwd, port)], 0)

\* handleStop run on the files and processes of st0, with options.port = st0.port.
handleStopFrom(st0, cwd, fate) ==
    LET port == st0.port
        existing_pid == st0.pidf[getPidFilePath(cwd, port)]
        st  == stopUnregister(st0)
        t   == terminateProcess(st.procs, existing_pid, fate)
        st2 == [st EXCEPT !.procs = t.procs, !.signalled = @ \cup t.signalled]
    IN  IF existing_pid = 0 THEN Return(st, 0)
        ELSE IF ~isRunningIn(st.procs, existing_pid)
             THEN stopStale(st, cwd, port)
        ELSE IF t.stopped
             THEN Return([st2 EXCEPT !.pidf = removePidFile(@, cwd, port)], 0)
        ELSE Return(st2, 1)

handleStop(cwd, port, fate) ==
    handleStopFrom(HandlerState(port), cwd, fate)

\* handleList, lines 281-286: the line of the global instance.
listGlobal(st, cwd) ==
    LET global_pid == st.pidf[getPidFilePath(cwd, 0)]
    IN  IF global_pid # 0 /\ isRunningIn(st.procs, global_pid)
        THEN <<[type |-> "global", port |-> DefaultPort, pid |-> global_pid,
                workspace |-> <<>>, stale |-> FALSE]>>
        ELSE <<>>

listRow_NeverStale(procs, inst) ==
    [type |-> "workspace", port |-> inst.port, pid |-> inst.pid,
     workspace |-> inst.workspace, stale |-> FALSE]

\* handleList, lines 290-296: the line of a registry record.
listRow(procs, inst) ==
    [type |-> "workspace", port |-> inst.port, pid |-> inst.pid,
     workspace |-> inst.workspace, stale |-> ~isRunningIn(procs, inst.pid)]

\* handleList reads the registry and the default PID file and prints; it writes
\* nothing and returns 0.
handleList(cwd) ==
    LET st == HandlerState(0)
        instances == readInstanceRegistry(st.reg)
        rows == listGlobal(st, cwd)
                   \o [i \in DOMAIN instances |-> listRow(st.procs, instances[i])]
        has_running == \E i \in DOMAIN rows : ~rows[i].stale
    IN  Return([st EXCEPT !.out = IF has_running THEN rows
                                  ELSE Append(rows, [type |-> "none", port |-> 0, pid |-> 0,
                                                     workspace |-> <<>>, stale |-> FALSE])], 0)

-----------------------------------------------------------------------------
(* Spec: command invocations run one after the other, and processes exit   *)

PortArgs == {0} \cup Ports

\* Ports held by other programs: none, the default port, or every port a scan
\* can try.
ExtBusySets == {{}, {DefaultPort}, DefaultPort..(DefaultPort + PortScanLast + 1)}

\* What is kept of an operation once another one has run.
Trim(c) == [NoCmd EXCEPT !.op = c.op, !.cwd = c.cwd, !.port = c.port,
                         !.newInst = c.newInst, !.ret = c.ret, !.spawned = c.spawned]

cmdFrame == <<tmpFile, foreign, tp, fq>>

\* The handler's writes reach the files and its exit code the caller.
Commit(r, op, cwd, port, new_instance) ==
    /\ registryFile' = r.reg
    /\ centralFile' = r.central
    /\ pidFile' = r.pidf
    /\ alive' = r.procs
    /\ procPort' = r.pp
    /\ nextPid' = r.np
    /\ last' = [Cmd(op) EXCEPT !.cwd = cwd, !.port = port, !.newInst = new_instance,
                               !.ret = r.ret, !.spawned = r.spawned,
                               !.signalled = r.signalled, !.cleaned = r.cleaned,
                               !.sub = r.sub, !.tally = r.tally,
                               !.selected = r.port, !.scan = r.scan,
                               !.out = r.out]
    /\ cli' = r.children
    /\ prev' = Trim(last)
    /\ UNCHANGED cmdFrame

Init ==
    /\ registryFile \in {MissingFile, CorruptFile}
    /\ tmpFile = MissingFile
    /\ centralFile = MissingFile
    /\ pidFile = NoPidFiles
    /\ alive = {}
    /\ foreign = {}
    /\ nextPid = 1
    /\ procPort = [p \in Pids |-> 0]
    /\ last = NoCmd
    /\ prev = NoCmd
    /\ cli = NoCli
    /\ tp = NoTp
    /\ fq = NoFq

Start ==
    /\ nextPid <= MaxPid
    /\ \E cwd \in Cwds, port \in PortArgs, new_instance \in BOOLEAN, fate \in Fates,
          spawnOk \in BOOLEAN :
        \E extBusy \in (IF port = 0 /\ new_instance THEN ExtBusySets ELSE {{}}) :
          Commit(handleStart(cwd, port, new_instance, fate, extBusy, spawnOk),
                 "start", cwd, port, new_instance)

Stop ==
    \E cwd \in Cwds, port \in PortArgs, fate \in Fates :
        Commit(handleStop(cwd, port, fate), "stop", cwd, port, FALSE)

List ==
    \E cwd \in Cwds :
        Commit(handleList(cwd), "list", cwd, 0, FALSE)

\* A process exits outside the tool's control.
ProcessExits ==
    \E p \in alive :
        /\ alive' = alive \ {p}
        /\ last' = [Cmd("exit") EXCEPT !.preAlive = alive \ {p}]
        /\ prev' = Trim(last)
        /\ UNCHANGED <<registryFile, centralFile, pidFile, procPort, nextPid, cli, cmdFrame>>

Next == Start \/ Stop \/ List \/ ProcessExits

Spec == Init /\ [][Next]_vars

\* The records of a registry file with the given port, in order.
RecordsOfPort(file, port) ==
    SelectSeq(readInstanceRegistry(file), LAMBDA inst : inst.port = port)

\* The last two operations are the same start invocation (same workspace, same
\* explicit port, same mode), and the first one spawned a process that was still
\* there when the second began.
StartedTwice ==
    /\ last.op = "start" /\ prev.op = "start"
    /\ last.cwd = prev.cwd
    /\ last.port # 0 /\ last.port = prev.port
    /\ last.newInst = prev.newInst
    /\ prev.ret = 0 /\ prev.spawned # 0
    /\ prev.spawned \in last.preAlive

C3_StopUnregisters ==
    (last.op = "stop" /\ last.port # 0) =>
        RecordsOfPort(registryFile, last.port) = <<>>

\* A stop of a registered port whose PID file named a live process.
C3_Witness ==
    /\ last.op = "stop" /\ last.port # 0
    /\ RecordsOfPort(last.preReg, last.port) # <<>>
    /\ last.prePid[getPidFilePath(last.cwd, last.port)] \in last.preAlive

\* C4: when stop finds a live process and cannot terminate it, it returns 1 and
\* the PID files and the registry records of that port are as they were before.
C4_FailedStopKeepsState ==
    (/\ last.op = "stop"
     /\ last.prePid[getPidFilePath(last.cwd, last.port)] \in last.preAlive
     /\ last.prePid[getPidFilePath(last.cwd, last.port)] \in alive) =>
        /\ last.ret = 1
        /\ pidFile = last.prePid
        /\ RecordsOfPort(registryFile, last.port) = RecordsOfPort(last.preReg, last.port)

-----------------------------------------------------------------------------
(* Central registry (registry.js): a JSON object keyed by project name     *)

NoProjects == <<>>

\* The parsed object, as the sequence of its entries in key order:
\* [project, path, port, pid].
MapFile(registry) == [kind |-> "map", data |-> registry]

readRegistry(file) ==
    IF file.kind = "map" THEN file.data ELSE NoProjects

writeRegistry(registry) == MapFile(registry)

\* path.basename of a resolved path.
getProjectName(project_path) ==
    LET segs == Segments(project_path, 1, <<>>)
    IN  IF segs = <<>> THEN <<>> ELSE segs[Len(segs)]

\* registry[project_name] = {...}: an existing key keeps its place, a new key is
\* added last.
registerInstanceCentral(file, project_path, port, pid) ==
    LET registry == readRegistry(file)
        project_name == getProjectName(project_path)
        data == [project |-> project_name, path |-> project_path, port |-> port,
                 pid |-> pid]
    IN  writeRegistry(
            IF \E i \in DOMAIN registry : registry[i].project = project_name
            THEN [i \in DOMAIN registry |->
                     IF registry[i].project = project_name THEN data ELSE registry[i]]
            ELSE Append(registry, data))

unregisterInstanceCentral(file, project_name) ==
    LET registry == readRegistry(file)
    IN  writeRegistry(SelectSeq(registry, LAMBDA e : e.project # project_name))

unregisterInstanceByPath(file, project_path) ==
    unregisterInstanceCentral(file, getProjectName(project_path))

\* The entries cleanRegistry keeps: those whose recorded pid is positive.
cleanKept(registry) == SelectSeq(registry, LAMBDA e : e.pid > 0)

\* cleanRegistry always writes the file; it returns the number of records removed.
cleanRegistry(file) ==
    LET registry == readRegistry(file)
        clean_registry == cleanKept(registry)
    IN  [file  |-> writeRegistry(clean_registry),
         count |-> Len(registry) - Len(clean_registry)]

\* getAllInstances: the entries in key order, each with its running status.
getAllInstances(procs, file) ==
    LET registry == readRegistry(file)
    IN  [i \in DOMAIN registry |->
            [project |-> registry[i].project, path |-> registry[i].path,
             port |-> registry[i].port, pid |-> registry[i].pid,
             running |-> isRunningIn(procs, registry[i].pid)]]

-----------------------------------------------------------------------------
(* The command handlers that work on the central registry                  *)

handleStartCentral(cwd, port, spawnOk) ==
    LET st0 == HandlerState(port)
        existing_pid == st0.pidf[getPidFilePath(cwd, 0)]
        st  == IF existing_pid # 0
               THEN [st0 EXCEPT !.pidf = removePidFile(@, cwd, 0)] ELSE st0
        started == startDaemon(st, cwd, spawnOk)
    IN  IF existing_pid # 0 /\ isRunningIn(st0.procs, existing_pid) THEN Return(st0, 0)
        ELSE IF started.spawned = 0 THEN Return(st, 1)
        ELSE Return([started EXCEPT !.central = registerInstanceCentral(@, cwd,
                         IF port = 0 THEN DefaultPort ELSE port, started.spawned)], 0)

handleStopCentral(cwd, fate) ==
    LET st == HandlerState(0)
        existing_pid == st.pidf[getPidFilePath(cwd, 0)]
        t   == terminateProcess(st.procs, existing_pid, fate)
        st2 == [st EXCEPT !.procs = t.procs, !.signalled = t.signalled]
    IN  IF existing_pid = 0 THEN Return(st, 2)
        ELSE IF ~isRunningIn(st.procs, existing_pid)
             THEN Return([st EXCEPT !.pidf = removePidFile(@, cwd, 0)], 2)
        ELSE IF t.stopped
             THEN Return([st2 EXCEPT !.pidf = removePidFile(@, cwd, 0),
                                     !.central = unregisterInstanceByPath(@, cwd)], 0)
        ELSE Return(st2, 1)

\* handleList cleans the registry before it reads and prints it.
handleListCentral(cwd) ==
    LET st == HandlerState(0)
        cleaned == cleanRegistry(st.central).file
    IN  Return([st EXCEPT !.central = cleaned, !.cleaned = TRUE,
                          !.out = getAllInstances(st.procs, cleaned)], 0)

-----------------------------------------------------------------------------
(* SpecWrites: two CLI invocations whose writes of either registry file     *)
(* interleave, each write taken system call by system call.                 *)

concCentralFrame == <<registryFile, tmpFile, pidFile, alive, foreign, nextPid, procPort, last, prev, tp, fq>>

\* The invocation reaches a call of registerInstance of the central registry.
CliBeginCentral(c) ==
    /\ cli[c].pc = "idle"
    /\ \E path \in {P_a, P_ab}, port \in Ports, pid \in Pids :
           cli' = [cli EXCEPT ![c] = [IdleCli EXCEPT !.pc = "readCentral",
                       !.op = "registerCentral",
                       !.entry = [workspace |-> path, port |-> port, pid |-> pid],
                       !.port = port]]
    /\ UNCHANGED <<centralFile, concCentralFrame>>

\* registerInstance: readRegistry() and the object it is about to write.
CliReadCentral(c) ==
    /\ cli[c].pc = "readCentral"
    /\ cli' = [cli EXCEPT ![c].pc = "openCentral",
                          ![c].instances = readRegistry(centralFile),
                          ![c].content = registerInstanceCentral(centralFile,
                              cli[c].entry.workspace, cli[c].entry.port,
                              cli[c].entry.pid).data]
    /\ UNCHANGED <<centralFile, concCentralFrame>>

\* writeRegistry: writeFileSync(registry_path, ...), its open with flag 'w': the
\* registry file itself is truncated.
CliOpenCentral(c) ==
    /\ cli[c].pc = "openCentral"
    /\ centralFile' = EmptyFile
    /\ cli' = [cli EXCEPT ![c].pc = "writeCentral", ![c].fd = "central"]
    /\ UNCHANGED concCentralFrame

\* writeRegistry: writeFileSync(registry_path, ...), its write and close.
CliWriteCentral(c) ==
    /\ cli[c].pc = "writeCentral"
    /\ centralFile' = writeAtStart(centralFile, MapFile(cli[c].content))
    /\ cli' = [cli EXCEPT ![c].pc = "done", ![c].fd = "none"]
    /\ UNCHANGED concCentralFrame

NextCentralWrites ==
    \E c \in Cli :
        \/ CliBeginCentral(c)
        \/ CliReadCentral(c)
        \/ CliOpenCentral(c)
        \/ CliWriteCentral(c)

NextWrites == NextConc \/ NextCentralWrites

SpecWrites == InitConc /\ [][NextWrites]_vars

\* C23: under every interleaving of concurrent invocations that read and write
\* a registry, the content of the registry file is at all times a complete
\* serialization of a record list written by one invocation (or what the file
\* held before any of them wrote), never a partial or mixed one.
C23_AtomicWrites ==
    /\ registryFile.kind \notin {"empty", "mixed"}
    /\ centralFile.kind \notin {"empty", "mixed"}

-----------------------------------------------------------------------------
(* SpecCentral: the same command line, served by the central-registry      *)
(* handlers                                                                *)

CentralCwds == {P_a, P_a_b, P_c}

InitCentral ==
    /\ Init
    /\ registryFile = MissingFile
    /\ centralFile \in {MissingFile, CorruptFile}

CentralStart ==
    /\ nextPid <= MaxPid
    /\ \E cwd \in CentralCwds, port \in PortArgs, spawnOk \in BOOLEAN :
          Commit(handleStartCentral(cwd, port, spawnOk), "start", cwd, port, FALSE)

CentralStop ==
    \E cwd \in CentralCwds, fate \in Fates :
        Commit(handleStopCentral(cwd, fate), "stopCentral", cwd, 0, FALSE)

CentralList ==
    \E cwd \in CentralCwds :
        Commit(handleListCentral(cwd), "list", cwd, 0, FALSE)

NextCentral == CentralStart \/ CentralStop \/ CentralList \/ ProcessExits

SpecCentral == InitCentral /\ [][NextCentral]_vars

\* C5: list is read-only.  After list, the registry files and every PID file are
\* what they were before it ran, and no cleanup was invoked.
C5_ListReadOnly ==
    last.op = "list" =>
        /\ registryFile = last.preReg
        /\ centralFile = last.preCentral
        /\ pidFile = last.prePid
        /\ ~last.cleaned

-----------------------------------------------------------------------------
(* More on terminateProcess (SpecTerm)                                     *)

PollIndexes == {i \in DOMAIN tp.log : tp.log[i].kind = "poll"}

\* C11: when SIGTERM raises "no such process", terminateProcess returns true at
\* once: no time passes, no liveness poll is made and SIGKILL is not sent.
C11_DeadPidReturnsAtOnce ==
    tp.err = "ESRCH" =>
        /\ tp.pc \in {"returnTrue", "done"}
        /\ tp.pc = "done" => tp.result = "true"
        /\ tp.log = <<SignalEvent("SIGTERM", 0)>>
        /\ tp.elapsed = 0

C11_Witness ==
    /\ tp.pc = "done"
    /\ tp.err = "ESRCH"
    /\ tp.timeout = MaxTimeout

\* C12: terminateProcess returns true only when the system has reported the
\* process gone (SIGTERM raised "no such process", or the last liveness probe
\* found nothing), and false only when the whole timeout has elapsed, SIGKILL
\* has been sent once, and the final probe still found the process.
C12_ResultIsJustified ==
    /\ tp.result = "true" =>
           /\ tp.pid \notin alive
           /\ \/ tp.err = "ESRCH"
              \/ /\ PollIndexes # {}
                 /\ tp.log[Len(tp.log)] = PollEvent(FALSE, tp.elapsed)
    /\ tp.result = "false" =>
           /\ tp.elapsed >= tp.timeout
           /\ Cardinality(SignalIndexes("SIGKILL")) = 1
           /\ tp.log[Len(tp.log)] = PollEvent(TRUE, tp.elapsed)
           /\ \A i \in PollIndexes : tp.log[i].running
           /\ tp.pid \in alive

\* Failure after a full window of polls.
C12_Witness ==
    /\ tp.result = "false"
    /\ tp.timeout = MaxTimeout
    /\ Cardinality(PollIndexes) >= 3

-----------------------------------------------------------------------------
(* SpecProbe: calls of isProcessRunning(pid) on a changing process table   *)

\* The pids the probe is called with: not positive, existing, not existing.
ProbePids == (0 - 1)..MaxPid

\* The pids isProcessRunning(pid) sends signal 0 to.
probeSignals(pid) == IF pid <= 0 THEN {} ELSE {pid}

probeFrame == <<registryFile, tmpFile, centralFile, pidFile, nextPid, procPort,
                cli, tp, fq>>

InitProbe ==
    /\ registryFile = MissingFile
    /\ tmpFile = MissingFile
    /\ centralFile = MissingFile
    /\ pidFile = [d \in RuntimeDirs |-> 0]
    /\ alive \in SUBSET Pids
    /\ foreign \in SUBSET alive
    /\ nextPid = MaxPid + 1
    /\ procPort = [p \in Pids |-> 0]
    /\ last = NoCmd
    /\ prev = NoCmd
    /\ cli = NoCli
    /\ tp = NoTp
    /\ fq = NoFq

ProbeCall ==
    \E pid \in ProbePids :
        /\ last' = [Cmd("isProcessRunning") EXCEPT
                       !.entry = [NoEntry EXCEPT !.pid = pid],
                       !.retval = [defined |-> TRUE,
                                   value |-> IF isProcessRunning(pid) THEN 1 ELSE 0],
                       !.signalled = probeSignals(pid)]
        /\ prev' = [NoCmd EXCEPT !.op = last.op, !.entry = last.entry,
                                 !.retval = last.retval]
        /\ UNCHANGED <<alive, foreign, probeFrame>>

ProbeProcessExits ==
    \E p \in alive :
        /\ alive' = alive \ {p}
        /\ foreign' = foreign \ {p}
        /\ last' = [Cmd("exit") EXCEPT !.preAlive = alive \ {p}]
        /\ prev' = [NoCmd EXCEPT !.op = last.op, !.entry = last.entry,
                                 !.retval = last.retval]
        /\ UNCHANGED probeFrame

NextProbe == ProbeCall \/ ProbeProcessExits

SpecProbe == InitProbe /\ [][NextProbe]_vars

\* C13: isProcessRunning(pid) is false for every pid <= 0, and signals nobody; for
\* pid > 0 it is false exactly when no process has that pid ("no such process"),
\* and true otherwise, also when the process may not be signalled ("operation
\* not permitted").
C13_IsProcessRunning ==
    last.op = "isProcessRunning" =>
        LET pid == last.entry.pid
            running == last.retval.value = 1
        IN  /\ last.retval.defined
            /\ pid <= 0 => (~running /\ last.signalled = {})
            /\ pid > 0 => /\ running <=> pid \in alive
                          /\ pid \in foreign => running
                          /\ last.signalled = {pid}

\* A probe of a process that exists and may not be signalled.
C13_Witness ==
    /\ last.op = "isProcessRunning"
    /\ last.entry.pid \in foreign
    /\ last.retval.value = 1
    /\ prev.op = "isProcessRunning" /\ prev.entry.pid <= 0

-----------------------------------------------------------------------------
(* handleRestart (commands.js) and SpecRestart                             *)

\* What a composite command records of a handler it called.
SubCall(op, port, new_instance, r) ==
    [op |-> op, port |-> port, newInst |-> new_instance, ret |-> r.ret,
     spawned |-> r.spawned]

\* handleRestart, lines 231-241: port_to_restart (0 = undefined).  Without an
\* explicit port, stale records are cleaned and the workspace is looked up.
restartTarget(st, cwd, port) ==
    LET cleaned == [st EXCEPT !.reg = cleanStaleInstances(st.procs, @), !.cleaned = TRUE]
        workspace_instance == findInstanceByWorkspace(cleaned.reg, cwd)
    IN  IF port # 0 THEN [st |-> st, target |-> port]
        ELSE [st |-> cleaned, target |-> workspace_instance.port]

\* handleRestart, lines 252-257: new_instance of the start options.
restartStartMode_PassThrough(port, target, new_instance) ==
    new_instance

restartStartMode(port, target, new_instance) ==
    IF target # 0 /\ port = 0 THEN TRUE ELSE new_instance

\* handleRestart, lines 252-257: port of the start options.
restartStartPort(port, target) ==
    IF target # 0 /\ port = 0 THEN target ELSE port

handleRestart(cwd, port, new_instance, stopFate, startFate, extBusy, spawnOk) ==
    LET t == restartTarget(HandlerState(port), cwd, port)
        stopped == handleStopFrom([t.st EXCEPT !.port = t.target], cwd, stopFate)
        stopCall == SubCall("stop", t.target, FALSE, stopped)
        start_new == restartStartMode(port, t.target, new_instance)
        start_port == restartStartPort(port, t.target)
        started == handleStartFrom([stopped EXCEPT !.done = FALSE, !.ret = 0,
                                                   !.port = start_port],
                                   cwd, start_new, startFate, extBusy, spawnOk)
    IN  IF stopped.ret # 0 /\ stopped.ret # 2
        THEN [Return(stopped, 1) EXCEPT !.sub = <<stopCall>>]
        ELSE [Return(started, IF started.ret = 0 THEN 0 ELSE 1) EXCEPT
                 !.sub = <<stopCall, SubCall("start", start_port, start_new, started)>>]

Restart ==
    /\ nextPid <= MaxPid
    /\ \E cwd \in Cwds, port \in PortArgs, new_instance \in BOOLEAN,
          stopFate \in Fates, startFate \in Fates, spawnOk \in BOOLEAN :
        \E extBusy \in (IF port = 0 /\ new_instance THEN ExtBusySets ELSE {{}}) :
          Commit(handleRestart(cwd, port, new_instance, stopFate, startFate,
                               extBusy, spawnOk),
                 "restart", cwd, port, new_instance)

NextRestart == Restart \/ ProcessExits

SpecRestart == Init /\ [][NextRestart]_vars

\* The port the last restart had to target: the explicit port, else the port of
\* the record the workspace lookup finds once stale records are removed, else 0
\* (the default instance).
RestartTarget ==
    IF last.port # 0 THEN last.port
    ELSE findInstanceByWorkspace(
             cleanStaleInstances(last.preAlive, last.preReg), last.cwd).port

RestartFromLookup == last.port = 0 /\ RestartTarget # 0

\* The last restart stopped its target and, unless the stop failed, started on the
\* same port; the process it spawned listens on the target port and, after a
\* workspace lookup, is the one the registry names for that port.
RestartStopsThenStarts ==
    /\ Len(last.sub) >= 1
    /\ last.sub[1].op = "stop" /\ last.sub[1].port = RestartTarget
    /\ IF last.sub[1].ret # 0
       THEN Len(last.sub) = 1 /\ last.ret = 1 /\ last.spawned = 0
       ELSE /\ Len(last.sub) = 2
            /\ last.sub[2].op = "start" /\ last.sub[2].port = RestartTarget
            /\ last.ret = (IF last.sub[2].ret = 0 THEN 0 ELSE 1)
            /\ last.spawned = last.sub[2].spawned
            /\ (last.spawned # 0 /\ RestartTarget # 0) =>
                   procPort[last.spawned] = RestartTarget
            /\ (last.spawned # 0 /\ RestartFromLookup) =>
                   RecordsOfPort(registryFile, RestartTarget) =
                       <<[workspace |-> last.cwd, port |-> RestartTarget,
                          pid |-> last.spawned]>>

-----------------------------------------------------------------------------
(* stop-all and restart-all (central registry)                             *)

\* Which process survives SIGTERM + SIGKILL, for every process the loop may
\* meet.
FatePlans == [Pids -> Fates]

\* Pending child invocations a restart-all may leave behind at most.
MaxChildren == 2

\* The exit code of stop-all and restart-all: failed > 0 ? 1 : 0.
allExitCode(failed) == IF failed > 0 THEN 1 ELSE 0

Tally(st, ok) ==
    [st EXCEPT !.tally = IF ok THEN <<@[1] + 1, @[2]>> ELSE <<@[1], @[2] + 1>>]

TerminateAttempt(instance, ok) ==
    [op |-> "terminate", path |-> instance.path, port |-> instance.port,
     pid |-> instance.pid, ok |-> ok]

SpawnAttempt(instance, ok) ==
    [op |-> "spawn", path |-> instance.path, port |-> instance.port,
     pid |-> 0, ok |-> ok]

\* terminateProcess(instance.pid, 5000) inside a loop: the process table, the
\* signals sent and the log of attempts move on.
terminateInstance(st, instance, fates) ==
    LET t == terminateProcess(st.procs, instance.pid, fates[instance.pid])
    IN  [st EXCEPT !.procs = t.procs,
                   !.signalled = @ \cup t.signalled,
                   !.sub = Append(@, TerminateAttempt(instance, t.stopped))]

stopAllRunning_Everything(instances) == instances

\* instances.filter(i => i.running)
stopAllRunning(instances) == SelectSeq(instances, LAMBDA i : i.running)

RECURSIVE stopAllLoop(_, _, _, _)
stopAllLoop(st, running, k, fates) ==
    IF k > Len(running) THEN st
    ELSE LET s1 == terminateInstance(st, running[k], fates)
             terminated == s1.sub[Len(s1.sub)].ok
         IN  stopAllLoop(Tally(s1, terminated), running, k + 1, fates)

handleStopAll(fates) ==
    LET st == HandlerState(0)
        instances == getAllInstances(st.procs, st.central)
        running == stopAllRunning(instances)
        s1 == stopAllLoop(st, running, 1, fates)
        s2 == [s1 EXCEPT !.central = cleanRegistry(@).file, !.cleaned = TRUE]
    IN  IF Len(running) = 0 THEN Return(st, 0)
        ELSE Return(s2, allExitCode(s2.tally[2]))

\* restart-all, lines 454-460: a running instance is terminated first; a
\* failure is a warning only.
restartOldInstance(st, instance, fates) ==
    IF instance.running THEN terminateInstance(st, instance, fates) ELSE st

\* restart-all, lines 462-478: spawn `start --port <port>` in the record's
\* path.  The child is a command-line process of its own; it counts as
\* restarted when the spawn gave it a pid.
restartSpawn(st, instance, spawnOk) ==
    Tally([st EXCEPT !.sub = Append(@, SpawnAttempt(instance, spawnOk)),
                     !.children = IF spawnOk
                                  THEN Append(@, [path |-> instance.path,
                                                  port |-> instance.port])
                                  ELSE @],
          spawnOk)

restartAllStep_StopOnWarning(st, instance, fates, spawnOk) ==
    LET s1 == restartOldInstance(st, instance, fates)
    IN  IF Len(s1.sub) > Len(st.sub) /\ ~s1.sub[Len(s1.sub)].ok
        THEN s1 ELSE restartSpawn(s1, instance, spawnOk)

\* One turn of the restart-all loop.
restartAllStep(st, instance, fates, spawnOk) ==
    restartSpawn(restartOldInstance(st, instance, fates), instance, spawnOk)

RECURSIVE restartAllLoop(_, _, _, _, _)
restartAllLoop(st, instances, k, fates, spawnPlan) ==
    IF k > Len(instances) THEN st
    ELSE restartAllLoop(restartAllStep(st, instances[k], fates, spawnPlan[k]),
                        instances, k + 1, fates, spawnPlan)

handleRestartAll(fates, spawnPlan) ==
    LET st == HandlerState(0)
        instances == getAllInstances(st.procs, st.central)
        s1 == restartAllLoop(st, instances, 1, fates, spawnPlan)
    IN  IF Len(instances) = 0 THEN Return(st, 0)
        ELSE Return(s1, allExitCode(s1.tally[2]))

RemoveAt(seq, k) == [j \in 1..(Len(seq) - 1) |-> IF j < k THEN seq[j] ELSE seq[j + 1]]

\* The child of a restart-all runs `start --port <port>` in the record's path.
childStart(k, spawnOk) ==
    LET r == handleStartCentral(cli[k].path, cli[k].port, spawnOk)
    IN  [r EXCEPT !.children = RemoveAt(cli, k)]

-----------------------------------------------------------------------------
(* SpecAll: start, stop-all, restart-all and the children of restart-all   *)

StopAll ==
    \E fates \in FatePlans :
        Commit(handleStopAll(fates), "stopAll", <<>>, 0, FALSE)

RestartAll ==
    /\ Len(cli) + Len(readRegistry(centralFile)) <= MaxChildren
    /\ \E fates \in FatePlans :
       \E spawnPlan \in [DOMAIN readRegistry(centralFile) -> BOOLEAN] :
          Commit(handleRestartAll(fates, spawnPlan), "restartAll", <<>>, 0, FALSE)

ChildStart ==
    /\ nextPid <= MaxPid
    /\ \E k \in DOMAIN cli, spawnOk \in BOOLEAN :
          Commit(childStart(k, spawnOk), "start", cli[k].path, cli[k].port, FALSE)

NextAll == CentralStart \/ StopAll \/ RestartAll \/ ChildStart \/ ProcessExits

SpecAll == InitCentral /\ [][NextAll]_vars

\* What stop-all or restart-all saw when it examined the registry.
ExaminedInstances == getAllInstances(last.preAlive, last.preCentral)

AttemptsOn(op, pid) == {k \in DOMAIN last.sub : last.sub[k].op = op /\ last.sub[k].pid = pid}

\* C15: stop-all signals only records whose pid is running when it examines
\* them, never a record whose pid is already dead; Stopped + Failed is the
\* number of running records; the exit code is non-zero exactly when Failed > 0.
C15_StopAll ==
    last.op = "stopAll" =>
        LET instances == ExaminedInstances
            running == {i \in DOMAIN instances : instances[i].running}
        IN  /\ \A k \in DOMAIN last.sub :
                  /\ last.sub[k].op = "terminate"
                  /\ \E i \in running : instances[i].pid = last.sub[k].pid
            /\ last.signalled \subseteq {instances[i].pid : i \in running}
            /\ \A i \in DOMAIN instances \ running :
                  /\ AttemptsOn("terminate", instances[i].pid) = {}
                  /\ instances[i].pid \notin last.signalled
            /\ \A i \in running : Cardinality(AttemptsOn("terminate", instances[i].pid)) = 1
            /\ last.tally[1] + last.tally[2] = Cardinality(running)
            /\ (last.ret # 0) <=> (last.tally[2] > 0)

\* One live and one dead record: Stopped: 1, Failed: 0.
C15_Witness ==
    /\ last.op = "stopAll"
    /\ Len(ExaminedInstances) = 2
    /\ \E i, j \in DOMAIN ExaminedInstances :
          ExaminedInstances[i].running /\ ~ExaminedInstances[j].running
    /\ last.tally = <<1, 0>>
    /\ last.ret = 0
    /\ Cardinality(last.signalled) = 1

SpawnAttempts == SelectSeq(last.sub, LAMBDA a : a.op = "spawn")

-----------------------------------------------------------------------------
(* More on handleStart and handleStop (Spec)                               *)

\* The record the registry had for the workspace of the last command.
WorkspaceRecord == findInstanceByWorkspace(last.preReg, last.cwd)

OrphanStart ==
    /\ last.op = "start" /\ last.newInst /\ last.port = 0
    /\ WorkspaceRecord # NoEntry
    /\ ~isRunningIn(last.preAlive, WorkspaceRecord.pid)

\* C17: a dedicated-instance start without a port, in a workspace whose
\* registry record names a dead process, removes the orphan's PID file and
\* record, spawns on the orphan's port without a port scan, and ends with
\* exactly one record for that port, carrying the new pid.
C17_OrphanPortReused ==
    OrphanStart =>
        /\ last.signalled = {}
        /\ WorkspaceRecord.pid \notin
              {readInstanceRegistry(registryFile)[i].pid :
                  i \in DOMAIN readInstanceRegistry(registryFile)}
        /\ pidFile[getPidFilePath(last.cwd, WorkspaceRecord.port)] = last.spawned
        /\ IF last.spawned # 0
           THEN /\ last.ret = 0
                /\ procPort[last.spawned] = WorkspaceRecord.port
                /\ RecordsOfPort(registryFile, WorkspaceRecord.port) =
                      <<[workspace |-> last.cwd, port |-> WorkspaceRecord.port,
                         pid |-> last.spawned]>>
           ELSE /\ last.ret = 1
                /\ RecordsOfPort(registryFile, WorkspaceRecord.port) = <<>>

\* The orphan's port is not the port a scan would have chosen: the default port
\* is free.
C17_Witness ==
    /\ OrphanStart
    /\ last.spawned # 0
    /\ WorkspaceRecord.port # DefaultPort
    /\ last.prePid[getPidFilePath(last.cwd, 0)] # 0
    /\ \A p \in last.preAlive : procPort[p] # DefaultPort

ScanningStart ==
    /\ last.op = "start" /\ last.newInst /\ last.port = 0
    /\ WorkspaceRecord = NoEntry

DefaultPidIsLive ==
    /\ last.prePid[getPidFilePath(last.cwd, 0)] # 0
    /\ isRunningIn(last.preAlive, last.prePid[getPidFilePath(last.cwd, 0)])

\* C18: a dedicated-instance start with no port and no record for the
\* workspace scans from 3001 when the default PID file names a live process and
\* from 3000 otherwise; the first free port at or above the scan start is
\* selected; on a successful spawn {workspace: cwd, port: selected, pid: spawned}
\* is registered.
C18_PortScan ==
    ScanningStart =>
        LET start == IF DefaultPidIsLive THEN 3001 ELSE 3000
            free  == {q \in start..(start + PortScanLast) : q \notin last.scan.busy}
        IN  /\ last.scan.start = start
            /\ IF free = {}
               THEN last.ret = 1 /\ last.spawned = 0 /\ last.selected = 0
               ELSE /\ last.selected \in free
                    /\ \A q \in start..last.selected : q # last.selected => q \in last.scan.busy
            /\ last.spawned # 0 =>
                  /\ procPort[last.spawned] = last.selected
                  /\ RecordsOfPort(registryFile, last.selected) =
                        <<[workspace |-> last.cwd, port |-> last.selected,
                           pid |-> last.spawned]>>

\* The scan starts at 3000, finds it taken, selects 3001; the spawn succeeds.
C18_Witness ==
    /\ ScanningStart
    /\ last.scan.start = 3000
    /\ 3000 \in last.scan.busy
    /\ last.selected = 3001
    /\ last.spawned # 0
    /\ last.ret = 0

-----------------------------------------------------------------------------
(* SpecStart: start from workspaces with different runtime directories     *)

\* A project workspace and a directory outside every project.
StartCwds == {P_a, P_c}

\* The operating system has pids left for what the handler spawned.
PidsLeft(r) == r.np <= MaxPid + 1

\* start without --port.
StartAnywhere ==
    \E cwd \in StartCwds, new_instance \in BOOLEAN, spawnOk \in BOOLEAN :
    \E fate \in (IF new_instance THEN Fates ELSE {"exits"}) :
    \E extBusy \in (IF new_instance THEN ExtBusySets ELSE {{}}) :
        LET r == handleStart(cwd, 0, new_instance, fate, extBusy, spawnOk)
        IN  PidsLeft(r) /\ Commit(r, "start", cwd, 0, new_instance)

NextStart == StartAnywhere \/ ProcessExits

SpecStart == Init /\ [][NextStart]_vars

\* The default PID file named a live process when a default-mode start began.
DefaultStartOnLive ==
    /\ last.op = "start" /\ ~last.newInst
    /\ DefaultPidIsLive

StaleRecords(file, procs) ==
    SelectSeq(readInstanceRegistry(file), LAMBDA inst : ~isRunningIn(procs, inst.pid))

\* C19 as stated: in default mode, start on a live default PID file returns 0,
\* spawns nothing and leaves the PID file and the instance registry unchanged.
C19_StartOnLiveChangesNothing ==
    DefaultStartOnLive =>
        /\ last.ret = 0
        /\ last.spawned = 0 /\ alive = last.preAlive
        /\ pidFile = last.prePid
        /\ registryFile = last.preReg

\* C19: in default mode, start on a live default PID file returns 0, spawns
\* nothing and leaves the PID file unchanged; the registry loses its records of
\* dead processes and is otherwise unchanged.
C19_StartOnLive ==
    DefaultStartOnLive =>
        /\ last.ret = 0
        /\ last.spawned = 0 /\ alive = last.preAlive
        /\ last.signalled = {}
        /\ pidFile = last.prePid
        /\ centralFile = last.preCentral
        /\ IF StaleRecords(last.preReg, last.preAlive) = <<>>
           THEN registryFile = last.preReg
           ELSE registryFile =
                   ListFile(SelectSeq(readInstanceRegistry(last.preReg),
                                      LAMBDA inst : isRunningIn(last.preAlive, inst.pid)))

C19_Witness ==
    /\ DefaultStartOnLive
    /\ StaleRecords(last.preReg, last.preAlive) # <<>>
    /\ last.ret = 0

-----------------------------------------------------------------------------
(* SpecStop: both stop handlers at work on the same PID files              *)

\* start without --port in the project workspace.
StartHere ==
    /\ nextPid <= MaxPid
    /\ \E new_instance \in BOOLEAN, fate \in Fates, spawnOk \in BOOLEAN :
          Commit(handleStart(P_a, 0, new_instance, fate, {}, spawnOk),
                 "start", P_a, 0, new_instance)

NextStop == StartHere \/ Stop \/ CentralStop \/ ProcessExits

SpecStop == Init /\ [][NextStop]_vars

StopTargetFile == getPidFilePath(last.cwd, last.port)
StopTargetPid  == last.prePid[StopTargetFile]

StopCase ==
    IF StopTargetPid = 0 THEN "noPidFile"
    ELSE IF ~isRunningIn(last.preAlive, StopTargetPid) THEN "stale"
    ELSE IF StopTargetPid \notin alive THEN "terminated"
    ELSE "survived"

-----------------------------------------------------------------------------
(* The life of registry records                                            *)

RecordSet(file) ==
    {readInstanceRegistry(file)[i] : i \in DOMAIN readInstanceRegistry(file)}

CentralRecordSet(file) == {readRegistry(file)[i] : i \in DOMAIN readRegistry(file)}

\* C21: a run of start or restart adds a record to the registry only when the
\* daemon spawn returned a pid > 0, and the record carries that pid; when the
\* spawn fails or start returns early, no record is added.
C21_RecordOnlyOnSpawn ==
    last.op \in {"start", "restart"} =>
        /\ \A r \in RecordSet(registryFile) \ RecordSet(last.preReg) :
              last.spawned > 0 /\ r.pid = last.spawned /\ last.ret = 0
        /\ \A r \in CentralRecordSet(centralFile) \ CentralRecordSet(last.preCentral) :
              last.spawned > 0 /\ r.pid = last.spawned /\ last.ret = 0
        /\ last.spawned = 0 => RecordSet(registryFile) \subseteq RecordSet(last.preReg)

\* A dedicated start that failed and added nothing is followed by one whose
\* spawn succeeds and whose record is added.
C21_Witness ==
    /\ last.op = "start" /\ last.newInst /\ last.spawned > 0
    /\ RecordSet(registryFile) \ RecordSet(last.preReg) # {}
    /\ prev.op = "start" /\ prev.newInst /\ prev.spawned = 0 /\ prev.ret = 1

-----------------------------------------------------------------------------
(* SpecLife: dedicated-instance start, stop and restart, one at a time, in *)
(* workspaces with different runtime directories                           *)

DedicatedStart ==
    /\ nextPid <= MaxPid
    /\ \E cwd \in StartCwds, port \in PortArgs, fate \in Fates, spawnOk \in BOOLEAN :
          Commit(handleStart(cwd, port, TRUE, fate, {}, spawnOk),
                 "start", cwd, port, TRUE)

DedicatedStop ==
    \E cwd \in StartCwds, port \in Ports, fate \in Fates :
        Commit(handleStop(cwd, port, fate), "stop", cwd, port, FALSE)

\* restart without --port.
DedicatedRestart ==
    /\ nextPid <= MaxPid
    /\ \E cwd \in StartCwds, fate \in Fates, spawnOk \in BOOLEAN :
          Commit(handleRestart(cwd, 0, TRUE, fate, fate, {}, spawnOk),
                 "restart", cwd, 0, TRUE)

NextLife == DedicatedStart \/ DedicatedStop \/ DedicatedRestart \/ ProcessExits

SpecLife == Init /\ [][NextLife]_vars

WorkspacesOf(file) == {r.workspace : r \in RecordSet(file)}

-----------------------------------------------------------------------------
(* SpecRace: two invocations of start --new-instance (no --port) run as two *)
(* operating-system processes; nothing orders the steps of one against the  *)
(* steps of the other.                                                      *)

IdleStart == [pc |-> "idle", cwd |-> <<>>, port |-> 0, ret |-> 0, spawned |-> 0,
              scan |-> NoCmd.scan]

raceFrame == <<tmpFile, centralFile, foreign, last, prev, tp, fq>>

InitRace ==
    /\ registryFile \in {MissingFile, CorruptFile}
    /\ tmpFile = MissingFile
    /\ centralFile = MissingFile
    /\ pidFile = NoPidFiles
    /\ alive = {}
    /\ foreign = {}
    /\ nextPid = 1
    /\ procPort = [p \in Pids |-> 0]
    /\ last = NoCmd
    /\ prev = NoCmd
    /\ cli = [c \in Cli |-> IdleStart]
    /\ tp = NoTp
    /\ fq = NoFq

\* The files and processes as they are now, and the invocation's own port.
RaceState(c) == [HandlerState(cli[c].port) EXCEPT !.scan = cli[c].scan]

\* The step's writes reach the files; the invocation goes on unless it returned.
RaceCommit(c, r, pc) ==
    /\ registryFile' = r.reg
    /\ pidFile' = r.pidf
    /\ alive' = r.procs
    /\ procPort' = r.pp
    /\ nextPid' = r.np
    /\ cli' = [cli EXCEPT ![c].pc = IF r.done THEN "done" ELSE pc,
                          ![c].port = r.port, ![c].ret = r.ret,
                          ![c].spawned = r.spawned, ![c].scan = r.scan]
    /\ UNCHANGED raceFrame

RaceBegin(c) ==
    /\ cli[c].pc = "idle"
    /\ \E cwd \in StartCwds :
           cli' = [cli EXCEPT ![c].pc = "existing", ![c].cwd = cwd]
    /\ UNCHANGED <<registryFile, pidFile, alive, procPort, nextPid, raceFrame>>

\* handleStart, lines 36-70.
RaceStopExisting(c) ==
    /\ cli[c].pc = "existing"
    /\ \E fate \in Fates :
           RaceCommit(c, startStopExisting(RaceState(c), cli[c].cwd, TRUE, fate), "clean")

\* handleStart, line 73.
RaceCleanStale(c) ==
    /\ cli[c].pc = "clean"
    /\ RaceCommit(c, startCleanStale(RaceState(c)), "select")

\* handleStart, lines 76-100.
RaceSelectPort(c) ==
    /\ cli[c].pc = "select"
    /\ RaceCommit(c, startSelectPort(RaceState(c), cli[c].cwd, TRUE, {}), "pidcheck")

\* handleStart, lines 102-133.
RaceAlreadyRunning(c) ==
    /\ cli[c].pc = "pidcheck"
    /\ RaceCommit(c, startAlreadyRunning(RaceState(c), cli[c].cwd, TRUE), "spawn")

\* handleStart, lines 144-172.
RaceSpawn(c) ==
    /\ cli[c].pc = "spawn"
    /\ \E spawnOk \in BOOLEAN :
           RaceCommit(c, startSpawn(RaceState(c), cli[c].cwd, TRUE, spawnOk), "done")

NextRace ==
    \E c \in Cli :
        \/ RaceBegin(c)
        \/ RaceStopExisting(c)
        \/ RaceCleanStale(c)
        \/ RaceSelectPort(c)
        \/ RaceAlreadyRunning(c)
        \/ RaceSpawn(c)

SpecRace == InitRace /\ [][NextRace]_vars

\* Both invocations have spawned a process for the same port and both
\* processes exist.
DoubleSpawn ==
    /\ \A c \in Cli : cli[c].pc = "done" /\ cli[c].spawned > 0
                      /\ cli[c].spawned \in alive
    /\ cli["A"].spawned # cli["B"].spawned
    /\ procPort[cli["A"].spawned] = procPort[cli["B"].spawned]

\* C24: two concurrent start --new-instance invocations can both spawn a
\* process for one port (C24_Witness is such a state), and they do so only
\* through the race: each of them found that port free when it looked for a
\* port, and nothing it saw afterwards stopped it.
C24_StartRace ==
    DoubleSpawn =>
        \A c \in Cli :
            /\ cli[c].scan.found = procPort[cli[c].spawned]
            /\ cli[c].scan.found \notin cli[c].scan.busy
            /\ cli[c].ret = 0

\* Both invocations scanned from the default port, found it free, and spawned
\* for it.
C24_Witness ==
    /\ DoubleSpawn
    /\ \A c \in Cli : cli[c].scan.found = DefaultPort /\ cli[c].scan.busy = {}
                      /\ procPort[cli[c].spawned] = DefaultPort

-----------------------------------------------------------------------------
(* SpecPid: the PID file functions of daemon.js, called as commands.js and   *)
(* daemon.test.js call them: with a port for a dedicated instance, without   *)
(* one (port 0 here) for the default instance.                               *)

pidOpFrame == <<registryFile, tmpFile, centralFile, alive, foreign, nextPid, procPort, cli, tp, fq>>

\* writePidFile(pid, port): the function has the one parameter pid.
PidWrite ==
    \E cwd \in StartCwds, port \in PortArgs, pid \in Pids :
        /\ pidFile' = writePidFile(pidFile, cwd, pid)
        /\ last' = [Cmd("writePidFile") EXCEPT !.cwd = cwd, !.port = port,
                                                !.entry = [NoEntry EXCEPT !.pid = pid]]
        /\ prev' = Trim(last)
        /\ UNCHANGED pidOpFrame

\* removePidFile(port)
PidRemove ==
    \E cwd \in StartCwds, port \in PortArgs :
        /\ pidFile' = removePidFile(pidFile, cwd, port)
        /\ last' = [Cmd("removePidFile") EXCEPT !.cwd = cwd, !.port = port]
        /\ prev' = Trim(last)
        /\ UNCHANGED pidOpFrame

NextPidOps == PidWrite \/ PidRemove

SpecPid == Init /\ [][NextPidOps]_vars

\* C25: within one runtime directory, writing or removing the PID file of one
\* port (or of the default instance) never changes what readPidFile returns for
\* a different port or for the default instance.
C25_PidFilesScopedByPort ==
    last.op \in {"writePidFile", "removePidFile"} =>
        \A q \in PortArgs \ {last.port} :
            readPidFile(last.cwd, q) = last.prePid[getPidFilePath(last.cwd, q)]

-----------------------------------------------------------------------------
(* C27: what list prints                                                     *)

GlobalRows(out) == {i \in DOMAIN out : out[i].type = "global"}
WorkspaceRows(out) == SelectSeq(out, LAMBDA row : row.type = "workspace")

\* C27: list computes liveness at read time: each registry record is printed,
\* marked stale exactly when the liveness probe of its pid fails at that moment,
\* and the line of the global instance is printed exactly when the default PID
\* file exists and names a live process.
C27_ListLiveness ==
    (last.op = "list" /\ ~last.cleaned) =>
        LET instances == readInstanceRegistry(last.preReg)
            rows == WorkspaceRows(last.out)
            global_pid == last.prePid[getPidFilePath(last.cwd, 0)]
        IN  /\ Len(rows) = Len(instances)
            /\ \A i \in DOMAIN instances :
                  /\ rows[i].port = instances[i].port
                  /\ rows[i].pid = instances[i].pid
                  /\ rows[i].workspace = instances[i].workspace
                  /\ rows[i].stale = (killErrorIn(last.preAlive, instances[i].pid) = "ESRCH")
            /\ (GlobalRows(last.out) # {}) =
                  (global_pid # 0 /\ killErrorIn(last.preAlive, global_pid) # "ESRCH")
            /\ \A i \in GlobalRows(last.out) : last.out[i].pid = global_pid
            /\ last.ret = 0

\* list marked a record stale whose process had exited, and did not print the
\* global instance although the PID file exists: the pid it names is dead.
C27_Witness ==
    /\ last.op = "list" /\ ~last.cleaned
    /\ last.prePid[getPidFilePath(last.cwd, 0)] # 0
    /\ GlobalRows(last.out) = {}
    /\ \E i \in DOMAIN last.out :
          /\ last.out[i].type = "workspace" /\ last.out[i].stale
          /\ last.out[i].pid \notin alive

\* The central registry's list: getAllInstances gives every record of the
\* registry with running set by the probe of its pid.
C27_CentralListLiveness ==
    (last.op = "list" /\ last.cleaned) =>
        LET registry == readRegistry(last.preCentral)
        IN  /\ Len(last.out) = Len(registry)
            /\ \A i \in DOMAIN registry :
                  /\ last.out[i].project = registry[i].project
                  /\ last.out[i].pid = registry[i].pid
                  /\ last.out[i].running = (killErrorIn(last.preAlive, registry[i].pid) # "ESRCH")

-----------------------------------------------------------------------------
(* SpecMigrate: migrate.js. The legacy PID file is server.pid of the global  *)
(* runtime directory; a daemon of the old version wrote it.                  *)

\* How the old process reacts to the signals of one killProcess call.
KillFates == {"exitsOnTerm", "exitsOnKill", "survives"}

\* checkOldGlobalPid: the pid in the file, 0 for none.
checkOldGlobalPid(pidf) == pidf[GlobalRuntimeDir]

\* removeOldGlobalPid: unlink, true when it worked.
removeOldGlobalPid(pidf, unlinkOk) ==
    IF unlinkOk THEN [pidf EXCEPT ![GlobalRuntimeDir] = 0] ELSE pidf

\* killProcess: SIGTERM, one second, SIGKILL if the process is still there, half
\* a second, and the answer of the last probe. kill throwing ESRCH counts as
\* killed, any other error as not killed.
killProcess(procs, pid, fate) ==
    IF killErrorIn(procs, pid) = "ESRCH"
    THEN [killed |-> TRUE, procs |-> procs, signals |-> <<>>]
    ELSE IF killErrorIn(procs, pid) # "none"
    THEN [killed |-> FALSE, procs |-> procs, signals |-> <<>>]
    ELSE IF fate = "exitsOnTerm"
    THEN [killed |-> TRUE, procs |-> procs \ {pid}, signals |-> <<"SIGTERM">>]
    ELSE IF fate = "exitsOnKill"
    THEN [killed |-> TRUE, procs |-> procs \ {pid}, signals |-> <<"SIGTERM", "SIGKILL">>]
    ELSE [killed |-> FALSE, procs |-> procs, signals |-> <<"SIGTERM", "SIGKILL">>]

migrateKillFailed_RemovesFile(st, k) ==
    Return([st EXCEPT !.procs = k.procs, !.out = k.signals,
                      !.pidf = removeOldGlobalPid(@, TRUE)], 1)

\* handleMigrate, lines 400-404: the forced termination failed.
migrateKillFailed(st, k) ==
    Return([st EXCEPT !.procs = k.procs, !.out = k.signals], 1)

migrateDryRun_RemovesFile(st) ==
    Return([st EXCEPT !.pidf = removeOldGlobalPid(@, TRUE)], 1)

\* handleMigrate, lines 407-429: live process, no --force: guidance only.
migrateDryRun(st) ==
    Return(st, 1)

\* handleMigrate; the signals sent are logged in out.
handleMigrate(force, fate, unlinkOk) ==
    LET st == HandlerState(0)
        old_pid == checkOldGlobalPid(st.pidf)
        k == killProcess(st.procs, old_pid, fate)
    IN  IF old_pid = 0 THEN Return(st, 0)
        ELSE IF ~isRunningIn(st.procs, old_pid)
        THEN Return([st EXCEPT !.pidf = removeOldGlobalPid(@, unlinkOk)], 0)
        ELSE IF force
        THEN IF k.killed
             THEN Return([st EXCEPT !.procs = k.procs, !.out = k.signals,
                                    !.pidf = removeOldGlobalPid(@, unlinkOk)], 0)
             ELSE migrateKillFailed(st, k)
        ELSE migrateDryRun(st)

migrateFrame == <<registryFile, tmpFile, centralFile, procPort, cli, tp, fq>>

Migrate ==
    \E force \in BOOLEAN, fate \in KillFates, unlinkOk \in BOOLEAN :
        LET r == handleMigrate(force, fate, unlinkOk)
        IN  /\ pidFile' = r.pidf
            /\ alive' = r.procs
            /\ foreign' = foreign \cap r.procs
            /\ last' = [Cmd("migrate") EXCEPT !.force = force, !.ret = r.ret,
                                              !.out = r.out]
            /\ prev' = Trim(last)
            /\ UNCHANGED <<nextPid, migrateFrame>>

\* A daemon of the old version starts, as this user or as another one, and
\* writes the global PID file.
LegacyDaemonStarts ==
    /\ nextPid <= MaxPid
    /\ \E own \in BOOLEAN :
          /\ alive' = alive \cup {nextPid}
          /\ foreign' = IF own THEN foreign ELSE foreign \cup {nextPid}
          /\ pidFile' = [pidFile EXCEPT ![GlobalRuntimeDir] = nextPid]
    /\ nextPid' = nextPid + 1
    /\ last' = Cmd("legacyStart")
    /\ prev' = Trim(last)
    /\ UNCHANGED migrateFrame

LegacyDaemonExits ==
    \E p \in alive :
        /\ alive' = alive \ {p}
        /\ foreign' = foreign \ {p}
        /\ last' = [Cmd("exit") EXCEPT !.preAlive = alive \ {p}]
        /\ prev' = Trim(last)
        /\ UNCHANGED <<pidFile, nextPid, migrateFrame>>

NextMigrate == Migrate \/ LegacyDaemonStarts \/ LegacyDaemonExits

SpecMigrate == Init /\ [][NextMigrate]_vars

\* The pid the legacy PID file named when the last command began.
OldPid == last.prePid[GlobalRuntimeDir]

OldWasLive == OldPid # 0 /\ OldPid \in last.preAlive

\* C28: migrate without --force, on a legacy PID file that names a live
\* process, sends no signal, leaves the file and every process as they were,
\* and returns a non-zero code.
C28_MigrateDryRun ==
    (last.op = "migrate" /\ ~last.force /\ OldWasLive) =>
        /\ last.out = <<>>
        /\ alive = last.preAlive
        /\ pidFile = last.prePid
        /\ last.ret # 0

\* A dry run on a live process this user could have signalled.
C28_Witness ==
    /\ last.op = "migrate" /\ ~last.force /\ OldWasLive
    /\ OldPid \notin foreign
    /\ last.ret = 1

\* C29: migrate removes the legacy PID file only when the process it names is
\* not running (stale, or killed by the forced termination); it returns 0 in
\* exactly those cases and when there is no legacy PID file; when the forced
\* termination fails the file is kept and the code is non-zero.
C29_MigrateRemoval ==
    last.op = "migrate" =>
        /\ pidFile # last.prePid =>
              /\ pidFile = [last.prePid EXCEPT ![GlobalRuntimeDir] = 0]
              /\ OldPid \notin alive
        /\ (last.ret = 0) =
              (OldPid = 0 \/ ~OldWasLive \/ (last.force /\ OldPid \notin alive))
        /\ (last.force /\ OldWasLive /\ OldPid \in alive) =>
              /\ pidFile = last.prePid
              /\ last.ret # 0

\* A forced migrate sent both signals and the process is still there.
C29_Witness ==
    /\ last.op = "migrate" /\ last.force /\ OldWasLive
    /\ last.out = <<"SIGTERM", "SIGKILL">>
    /\ OldPid \in alive
    /\ pidFile[GlobalRuntimeDir] = OldPid

-----------------------------------------------------------------------------
(* SpecDiscover: findBeadsProjects on a directory tree. A directory is the   *)
(* sequence of the entry names that lead to it from the search path.         *)

MaxWalkDepth == 2

N_a     == <<"a">>
N_b     == <<"b">>
N_c     == <<"c">>
N_e     == <<"e">>
N_p     == <<"p">>
N_dist  == <<"d", "i", "s", "t">>
N_build == <<"b", "u", "i", "l", "d">>
N_git   == <<".", "g", "i", "t">>
N_node_modules == <<"n", "o", "d", "e", "_", "m", "o", "d", "u", "l", "e", "s">>
N_hidden == <<".", "h">>

\* The directories of the tree in the order readdir lists them.
WalkDirList ==
    << <<>>, <<N_a>>, <<N_e>>, <<N_dist>>, <<N_a, N_b>>, <<N_a, N_hidden>>,
       <<N_a, N_b, N_c>>, <<N_dist, N_p>> >>

WalkDirs == {WalkDirList[i] : i \in DOMAIN WalkDirList}

\* What a directory is: plain, holding a file named .beads, holding a directory
\* named .beads, or holding a directory named .beads and not readable.
DirKinds == {"plain", "markerFile", "project", "locked"}

WalkTrees ==
    {t \in [WalkDirs -> DirKinds] :
        \A d \in {<<N_a, N_hidden>>, <<N_a, N_b, N_c>>, <<N_dist, N_p>>} :
            t[d] \in {"plain", "project"}}

ignoredName_OnlyNamed(name) ==
    name \in {N_node_modules, N_git, N_dist, N_build}

\* Lines 339-345: node_modules, .git, dist, build and every name that starts
\* with a dot.
ignoredName(name) ==
    \/ name \in {N_node_modules, N_git, N_dist, N_build}
    \/ Head(name) = "."

\* The subdirectories readdirSync(dir) lists, by name.
entriesOf(dir) ==
    SelectSeq(WalkDirList,
              LAMBDA d : Len(d) = Len(dir) + 1 /\ SubSeq(d, 1, Len(dir)) = dir)

\* walk(dir, depth), lines 317-348: w is what the walk has collected so far, the
\* projects and the directories it has read.
RECURSIVE walk(_, _, _, _, _)
RECURSIVE walkEntries(_, _, _, _, _)
walk(tree, max_depth, dir, depth, w) ==
    IF depth > max_depth THEN w
    ELSE IF tree[dir] = "locked" THEN w
    ELSE IF tree[dir] = "project"
    THEN [w EXCEPT !.projects = Append(@, dir), !.read = Append(@, dir)]
    ELSE walkEntries(tree, max_depth, entriesOf(dir), depth,
                     [w EXCEPT !.read = Append(@, dir)])

walkEntries(tree, max_depth, entries, depth, w) ==
    IF entries = <<>> THEN w
    ELSE LET entry == Head(entries)
         IN  walkEntries(tree, max_depth, Tail(entries), depth,
                 IF ignoredName(entry[Len(entry)]) THEN w
                 ELSE walk(tree, max_depth, entry, depth + 1, w))

findBeadsProjects(tree, max_depth) ==
    walk(tree, max_depth, <<>>, 0, [projects |-> <<>>, read |-> <<>>])

discoverFrame == <<registryFile, tmpFile, centralFile, pidFile, alive, foreign, nextPid,
                   procPort, last, prev, tp, fq>>

InitDiscover ==
    /\ registryFile = MissingFile
    /\ tmpFile = MissingFile
    /\ centralFile = MissingFile
    /\ pidFile = NoPidFiles
    /\ alive = {}
    /\ foreign = {}
    /\ nextPid = 1
    /\ procPort = [p \in Pids |-> 0]
    /\ last = NoCmd
    /\ prev = NoCmd
    /\ cli \in [pc : {"call"}, tree : WalkTrees, max_depth : 0..MaxWalkDepth,
                projects : {<<>>}, read : {<<>>}]
    /\ tp = NoTp
    /\ fq = NoFq

Discover ==
    /\ cli.pc = "call"
    /\ LET w == findBeadsProjects(cli.tree, cli.max_depth)
       IN  cli' = [cli EXCEPT !.pc = "returned", !.projects = w.projects,
                              !.read = w.read]
    /\ UNCHANGED discoverFrame

NextDiscover == Discover

SpecDiscover == InitDiscover /\ [][NextDiscover]_vars

Found == {cli.projects[i] : i \in DOMAIN cli.projects}

ReadDirs == {cli.read[i] : i \in DOMAIN cli.read}

\* The directories above d, the search path included.
AncestorsOf(d) == {SubSeq(d, 1, n) : n \in 0..(Len(d) - 1)}

HasMarkerDir(d) == cli.tree[d] \in {"project", "locked"}

IgnoredByName(d) ==
    d # <<>> /\ (d[Len(d)] \in {N_node_modules, N_git, N_dist, N_build}
                   \/ Head(d[Len(d)]) = ".")

\* C30 as stated: a directory is returned exactly when it contains the marker
\* as a subdirectory, lies within maxDepth levels of the root, and every
\* ancestor is neither a project nor an ignored name; the walk never descends
\* into a project.
C30_FindProjects ==
    cli.pc = "returned" =>
        /\ \A d \in WalkDirs :
              d \in Found <=>
                  /\ HasMarkerDir(d)
                  /\ Len(d) <= cli.max_depth
                  /\ \A a \in AncestorsOf(d) : ~HasMarkerDir(a) /\ ~IgnoredByName(a)
        /\ \A r \in ReadDirs : \A a \in AncestorsOf(r) : a \notin Found

\* C30 as amended: a directory is returned exactly when it can be read,
\* contains the marker as a subdirectory, lies within maxDepth levels of the
\* root, has itself no ignored name unless it is the root, and every ancestor
\* can be read and is neither a project nor, below the root, an ignored name.
\* The walk never reads a directory below a project or below an ignored name,
\* and each directory is returned at most once.
C30_FindProjectsReadable ==
    cli.pc = "returned" =>
        /\ \A d \in WalkDirs :
              d \in Found <=>
                  /\ cli.tree[d] = "project"
                  /\ Len(d) <= cli.max_depth
                  /\ ~IgnoredByName(d)
                  /\ \A a \in AncestorsOf(d) :
                        cli.tree[a] \in {"plain", "markerFile"} /\ ~IgnoredByName(a)
        /\ \A r \in ReadDirs :
              /\ ~IgnoredByName(r)
              /\ \A a \in AncestorsOf(r) : a \notin Found /\ ~IgnoredByName(a)
        /\ Cardinality(Found) = Len(cli.projects)

\* The walk passed a directory it could not read and a directory named dist
\* that holds the marker, returned neither, and went on to return a project
\* listed after them and one below a plain directory.
C30_Witness ==
    /\ cli.pc = "returned"
    /\ cli.tree[<<N_a>>] = "plain" /\ cli.tree[<<N_a, N_b>>] = "project"
    /\ cli.tree[<<N_e>>] = "project"
    /\ cli.tree[<<N_dist>>] = "project"
    /\ cli.tree[<<N_a, N_hidden>>] = "project"
    /\ Found = {<<N_a, N_b>>, <<N_e>>}

-----------------------------------------------------------------------------
(* C31: start --new-instance --port p in a workspace that has a live record  *)
(* on another port                                                           *)

\* The record the last command found for its workspace when it began.
ExistingBefore == findInstanceByWorkspace(last.preReg, last.cwd)

PinnedOtherPort ==
    /\ last.op = "start" /\ last.newInst /\ last.port # 0
    /\ ExistingBefore # NoEntry
    /\ ExistingBefore.pid \in last.preAlive
    /\ ExistingBefore.port # last.port

\* C31: in dedicated-instance start, when the workspace already has a record
\* whose process is alive and the caller pinned an explicit port different from
\* that record's port, the existing instance is not stopped: it gets no signal,
\* stays alive and keeps its record.
C31_PinnedPortKeepsExisting ==
    PinnedOtherPort =>
        /\ ExistingBefore.pid \notin last.signalled
        /\ ExistingBefore.pid \in alive
        /\ ExistingBefore \in RecordSet(registryFile)

\* C32: stop-all finishes with stale cleanup: after it returns the registry has
\* no record of an instance it terminated and no other record whose pid fails
\* the liveness probe, while the records whose termination failed are still
\* there.
C32_StopAllCleansStale ==
    last.op = "stopAll" =>
        /\ \A r \in CentralRecordSet(centralFile) : killErrorIn(alive, r.pid) # "ESRCH"
        /\ \A k \in DOMAIN last.sub :
              ~last.sub[k].ok =>
                  \E r \in CentralRecordSet(centralFile) : r.pid = last.sub[k].pid

-----------------------------------------------------------------------------
(* SpecCli: the command line `stop --port p` as index.js dispatches it       *)

\* main, lines 99-101: `return await handleStop();` - the parsed options are not
\* passed on.
mainStop(cwd, port, fate) == handleStop(cwd, 0, fate)

MainStop ==
    \E cwd \in Cwds, port \in Ports, fate \in Fates :
        Commit(mainStop(cwd, port, fate), "stopCli", cwd, port, FALSE)

NextCli == StartHere \/ MainStop \/ ProcessExits

SpecCli == Init /\ [][NextCli]_vars

\* The pid in the default instance's PID file when the last command began.
DefaultPidBefore == last.prePid[getPidFilePath(last.cwd, 0)]

\* C33: `stop --port p` works on the PID file and registry entry of port p: it
\* never signals the default instance's process and never removes the default
\* instance's PID file.
C33_StopPortLeavesDefault ==
    (last.op = "stopCli" /\ last.port # 0 /\ DefaultPidBefore # 0
        /\ procPort[DefaultPidBefore] = DefaultPort /\ last.port # DefaultPort) =>
        /\ DefaultPidBefore \notin last.signalled
        /\ pidFile[getPidFilePath(last.cwd, 0)] = DefaultPidBefore

-----------------------------------------------------------------------------
(* Port exhaustion                                                          *)

\* The start ran its port scan and the scan found no free port.
ScanExhausted ==
    /\ last.op = "start"
    /\ last.scan.start # 0
    /\ last.scan.found = 0

\* C34: when the port scan of start finds no free port in its range, start
\* returns a non-zero exit code, spawns no process, writes no PID file and adds
\* no record to the registry.
C34_NoFreePort ==
    ScanExhausted =>
        /\ last.ret # 0
        /\ last.spawned = 0
        /\ alive \subseteq last.preAlive
        /\ \A d \in RuntimeDirs : pidFile[d] \in {0, last.prePid[d]}
        /\ RecordSet(registryFile) \subseteq RecordSet(last.preReg)
        /\ centralFile = last.preCentral

\* Every port of the range is taken, some of them by daemons of other workspaces.
C34_Witness ==
    /\ ScanExhausted
    /\ last.scan.busy \cap {procPort[p] : p \in last.preAlive} # {}
    /\ \A q \in last.scan.start..(last.scan.start + PortScanLast) : q \in last.scan.busy

-----------------------------------------------------------------------------
(* Stop and the processes it leaves behind                                  *)

\* The pids the registry held for the port of the last operation before it ran.
RegisteredForPort == {r.pid : r \in {x \in RecordSet(last.preReg) : x.port = last.port}}

\* C35: when stop for port p returns 0, no process that was registered for port
\* p is still running.
C35_StopLeavesNoneRunning ==
    (last.op = "stop" /\ last.port # 0 /\ last.ret = 0) =>
        \A pid \in RegisteredForPort : pid \notin alive

-----------------------------------------------------------------------------
(* Failed starts                                                            *)

\* A dedicated start failed in a workspace whose registered instance was running.
FailedStartOverLive ==
    /\ last.op = "start" /\ last.newInst /\ last.ret # 0
    /\ ExistingBefore # NoEntry
    /\ ExistingBefore.pid \in last.preAlive

\* C36: when a dedicated start returns a non-zero code, an instance that was
\* running and registered for the workspace before the command is still running
\* and still registered.
C36_FailedStartKeepsInstance ==
    FailedStartOverLive =>
        /\ ExistingBefore.pid \in alive
        /\ ExistingBefore \in RecordSet(registryFile)

-----------------------------------------------------------------------------
(* Restart and the registry                                                 *)

\* The last restart returned 0 and its target port had a record before it ran.
RestartedRegisteredPort ==
    /\ last.op = "restart" /\ last.ret = 0
    /\ RestartTarget # 0
    /\ RecordsOfPort(last.preReg, RestartTarget) # <<>>

\* C37: when restart returns 0 for a target port that had a registry record
\* before the command, the registry afterwards holds a record for that port
\* whose pid is the newly spawned process.
C37_RestartKeepsRegistration ==
    RestartedRegisteredPort =>
        /\ last.spawned # 0
        /\ \E r \in RecordSet(registryFile) :
              r.port = RestartTarget /\ r.pid = last.spawned

\* C37 for restarts whose port came from the workspace lookup.
C37_LookupRestartKeepsRegistration ==
    (RestartedRegisteredPort /\ RestartFromLookup) =>
        /\ last.spawned # 0
        /\ \E r \in RecordSet(registryFile) :
              r.port = RestartTarget /\ r.pid = last.spawned

-----------------------------------------------------------------------------
(* Concurrent registrations                                                 *)

\* The records two invocations started in different workspaces register.
WorkspaceEntries ==
    [workspace : {P_a}, port : Ports, pid : {1}]
        \cup [workspace : {P_c}, port : Ports, pid : {MaxPid}]

\* A start in any workspace reaches its call of registerInstance.
CliBeginRegisterIn(c) ==
    /\ cli[c].pc = "idle"
    /\ \E e \in WorkspaceEntries :
           cli' = [cli EXCEPT ![c] = [IdleCli EXCEPT !.pc = "read",
                       !.op = "registerInstance", !.entry = e, !.port = e.port]]
    /\ UNCHANGED <<registryFile, tmpFile, concFrame>>

NextRegs ==
    \E c \in Cli :
        \/ CliBeginRegisterIn(c)
        \/ CliRead(c)
        \/ CliOpenTmp(c)
        \/ CliWriteTmp(c)
        \/ CliRename(c)
        \/ CliUnlink(c)

SpecRegs == InitConc /\ [][NextRegs]_vars

\* Both invocations registered, for distinct ports and distinct workspaces, and
\* both have finished.
BothRegistered ==
    /\ \A c \in Cli : cli[c].pc = "done" /\ cli[c].op = "registerInstance"
    /\ cli["A"].entry.port # cli["B"].entry.port
    /\ cli["A"].entry.workspace # cli["B"].entry.workspace

\* C38: when the read and write steps of two concurrent register operations for
\* distinct ports interleave in any order, the final registry contains both
\* records.
C38_NoLostRegistration ==
    BothRegistered =>
        \A c \in Cli : cli[c].entry \in RecordSet(registryFile)

-----------------------------------------------------------------------------
(* Restart over an orphaned record                                          *)

\* A restart without a port ran in a workspace whose record named a dead process.
RestartOverOrphan ==
    /\ last.op = "restart" /\ last.port = 0
    /\ ExistingBefore # NoEntry
    /\ ExistingBefore.pid \notin last.preAlive

\* C39: restart without an explicit port, run in a workspace whose registered
\* process has died, targets the port of that record, and when it succeeds the
\* process it spawned listens on that port and is registered there for the
\* workspace.
C39_RestartReusesOrphanPort ==
    RestartOverOrphan =>
        /\ last.sub[1].port = ExistingBefore.port
        /\ last.ret = 0 =>
              /\ last.spawned # 0
              /\ procPort[last.spawned] = ExistingBefore.port
              /\ [workspace |-> last.cwd, port |-> ExistingBefore.port,
                  pid |-> last.spawned] \in RecordSet(registryFile)

-----------------------------------------------------------------------------
(* SpecReuse: pids of exited daemons are given to other processes           *)

\* The operating system gives the pid of an exited process to a new process that
\* is no daemon of this tool and listens on no port.
PidReused ==
    \E p \in 1..(nextPid - 1) :
        /\ p \notin alive
        /\ alive' = alive \cup {p}
        /\ procPort' = [procPort EXCEPT ![p] = 0]
        /\ last' = Cmd("pidReused")
        /\ prev' = Trim(last)
        /\ UNCHANGED <<registryFile, centralFile, pidFile, nextPid, cli, cmdFrame>>

NextReuse == DedicatedStart \/ DedicatedStop \/ ProcessExits \/ PidReused

SpecReuse == Init /\ [][NextReuse]_vars

\* The processes that startDaemon spawned: they listen on a port.
SpawnedByTool == {p \in Pids : procPort[p] # 0}

\* C40: every SIGTERM or SIGKILL sent by a command targets a process started
\* by the daemon spawn.
C40_SignalsOnlyOwnDaemons ==
    last.signalled \subseteq SpawnedByTool

====
